---- MODULE Spec2Model ----
(***************************************************************************)
(* Invoice Delivery Core of shopmaze_backend.                              *)
(*                                                                         *)
(* The repository holds two generations of the InvoicePoller class in      *)
(* src/src/shared/invoicePoller.js: the registry-driven class of line 13   *)
(* (registerInvoice / registeredInvoices, wired to websocket-server.js)    *)
(* and the bucket-driven class of line 603 (registerExpectedInvoice /      *)
(* expectedInvoices / processedInvoicesCache).  Spec models the class of   *)
(* line 603 together with the session maps and the delivery callback of    *)
(* websocket-server.js; SpecV1 models the class of line 13 with the same   *)
(* callback, its public methods being called in any order.                 *)
(*                                                                         *)
(* JavaScript runs one handler at a time; a handler gives up the processor *)
(* only at an await of real I/O (object store, filesystem).  Every action  *)
(* below is one such uninterrupted run.                                    *)
(*                                                                         *)
(* Strings that the code takes apart (object keys, file names, cache keys) *)
(* are sequences of tokens: a token is a maximal run of digits, the word   *)
(* "invoice", a separator or an extension.                                 *)
(***************************************************************************)
EXTENDS Integers, Sequences, FiniteSets, TLC

(***************************************************************************)
(* Bounds of the model.                                                    *)
(***************************************************************************)
\* environment steps (frames, registrations, uploads, restarts) per behaviour
MaxEnvSteps == 5
\* poll timers that may be pending at once (setTimeout handles not yet fired)
MaxTimers == 2

\* WebSocket objects the client creates in one run
MaxSockets == 3

(***************************************************************************)
(* Values.                                                                 *)
(***************************************************************************)
PNs == {"1030", "2001"}
Players == {"alice", "bob"}
Sessions == {"s1", "s2"}
Summaries == {50, 75}

DigitTokens == {"1030", "2001", "9999"}
SepTokens == {"_", "-"}

\* String.prototype.toLowerCase on a token
Lower(t) ==
    CASE t = "INVOICE" -> "invoice"
      [] t = "Invoice" -> "invoice"
      [] t = ".PDF" -> ".pdf"
      [] OTHER -> t

\* object keys the bucket may hold
ObjInvoice1030 == <<"invoice", "_", "1030", ".pdf">>
ObjBare1030 == <<"1030", ".PDF">>
ObjInvoice2001 == <<"Invoice", "-", "2001", ".pdf">>
ObjDraft == <<"invoice", "_", "draft", ".pdf">>
ObjNotes == <<"notes", ".txt">>
ObjNames == {ObjInvoice1030, ObjBare1030, ObjInvoice2001, ObjDraft, ObjNotes}

\* the bytes stored under each key
ContentOf(name) ==
    CASE name = ObjInvoice1030 -> <<37, 80, 68, 70>>
      [] name = ObjBare1030 -> <<37, 80>>
      [] name = ObjInvoice2001 -> <<37, 80, 68>>
      [] OTHER -> <<10>>

(***************************************************************************)
(* JavaScript Map and Set operations.                                      *)
(***************************************************************************)
EmptyMap == [k \in {} |-> 0]

MapHas(m, k) == k \in DOMAIN m

MapSet(m, k, v) == [x \in (DOMAIN m) \cup {k} |-> IF x = k THEN v ELSE m[x]]

MapDelete(m, k) == [x \in (DOMAIN m) \ {k} |-> m[x]]

(***************************************************************************)
(* Buffer.toString('base64'): bytes to 6-bit symbols, 64 is the padding.   *)
(***************************************************************************)
RECURSIVE Base64(_)
Base64(b) ==
    IF Len(b) = 0 THEN <<>>
    ELSE IF Len(b) = 1 THEN
        <<b[1] \div 4, (b[1] % 4) * 16, 64, 64>>
    ELSE IF Len(b) = 2 THEN
        <<b[1] \div 4, (b[1] % 4) * 16 + b[2] \div 16, (b[2] % 16) * 4, 64>>
    ELSE
        <<b[1] \div 4, (b[1] % 4) * 16 + b[2] \div 16,
          (b[2] % 16) * 4 + b[3] \div 64, b[3] % 64>>
        \o Base64(SubSeq(b, 4, Len(b)))

(***************************************************************************)
(* extractInvoiceNumber and the filter of pollForInvoices.                 *)
(***************************************************************************)
IsInvoiceTok(t) == Lower(t) = "invoice"

\* /invoice[_-](\d+)/i at token i
Pat1At(name, i) ==
    /\ i + 2 <= Len(name)
    /\ IsInvoiceTok(name[i])
    /\ name[i + 1] \in SepTokens
    /\ name[i + 2] \in DigitTokens

\* /(\d+)\.pdf$/i
Pat2(name) ==
    /\ Len(name) >= 2
    /\ name[Len(name) - 1] \in DigitTokens
    /\ Lower(name[Len(name)]) = ".pdf"

\* /invoice(\d+)/i at token i
Pat3At(name, i) ==
    /\ i + 1 <= Len(name)
    /\ IsInvoiceTok(name[i])
    /\ name[i + 1] \in DigitTokens

\* /(\d+)[_-]invoice/i at token i
Pat4At(name, i) ==
    /\ i + 2 <= Len(name)
    /\ name[i] \in DigitTokens
    /\ name[i + 1] \in SepTokens
    /\ IsInvoiceTok(name[i + 2])

\* leftmost position at which P holds (a regular expression matches leftmost)
First(S) == CHOOSE i \in S : \A j \in S : i <= j

NoNumber == "null"

\* a pattern list in which /(\d+)\.pdf$/i is tried last
extractInvoiceNumber_SuffixLast(name) ==
    LET I == 1..Len(name)
        m1 == {i \in I : Pat1At(name, i)}
        m3 == {i \in I : Pat3At(name, i)}
        m4 == {i \in I : Pat4At(name, i)}
    IN  IF m1 # {} THEN name[First(m1) + 2]
        ELSE IF m3 # {} THEN name[First(m3) + 1]
        ELSE IF m4 # {} THEN name[First(m4)]
        ELSE IF Pat2(name) THEN name[Len(name) - 1]
        ELSE NoNumber

extractInvoiceNumber(name) ==
    LET I == 1..Len(name)
        m1 == {i \in I : Pat1At(name, i)}
        m3 == {i \in I : Pat3At(name, i)}
        m4 == {i \in I : Pat4At(name, i)}
    IN  IF m1 # {} THEN name[First(m1) + 2]
        ELSE IF Pat2(name) THEN name[Len(name) - 1]
        ELSE IF m3 # {} THEN name[First(m3) + 1]
        ELSE IF m4 # {} THEN name[First(m4)]
        ELSE NoNumber

\* name.toLowerCase().endsWith('.pdf') || name.toLowerCase().includes('invoice')
PassesFilter(name) ==
    \/ Lower(name[Len(name)]) = ".pdf"
    \/ \E i \in 1..Len(name) : IsInvoiceTok(name[i])


(***************************************************************************)
(* File names and cache keys of the class of line 603.                     *)
(***************************************************************************)
\* `invoice_${invoiceNumber}.json` (saveInvoiceToFilesystem, fetchInvoiceFromFilesystem)
InvoiceFileName(n) == <<"invoice", "_", n, ".json">>

\* `${invoiceNumber}.json` (deleteInvoiceFromFilesystem; the class of line 13)
PlainFileName(n) == <<n, ".json">>

\* a PO number as a string of the cache
Str(n) == <<n>>

\* file.replace('.json', '') for a name that ends in .json
StripJson(file) == SubSeq(file, 1, Len(file) - 1)

EndsWithJson(file) == Len(file) >= 1 /\ file[Len(file)] = ".json"

\* a file whose writeFile did not complete: JSON.parse throws on it
PartialFile == [complete |-> FALSE]

JsonFile(data) == [complete |-> TRUE, data |-> data]

(***************************************************************************)
(* State.                                                                  *)
(***************************************************************************)
VARIABLES
    \* InvoicePoller, class of line 603
    expectedInvoices,           \* Map invoiceNumber -> expectedInvoiceData
    processedInvoicesCache,     \* Set of strings
    \* InvoicePoller, class of line 13
    registeredInvoices,         \* Map invoiceNumber -> registrationData
    processedInvoices,          \* Map invoiceNumber -> processedData
    \* both classes
    isPolling,
    isConnected,
    pollingTimer,               \* the last setTimeout handle, 0 is null
    invoiceProcessedCallback,   \* TRUE once setInvoiceProcessedCallback ran
    \* the event loop
    timers,                     \* setTimeout handles that have not fired
    ticks,                      \* executions of pollForInvoices (and, in SpecStore,
                                \* of clearProcessedInvoices), by slot
    \* the world outside the process
    bucket,                     \* Map object key -> bytes
    disk,                       \* Map file name -> file
    \* websocket-server.js
    connectedClients,           \* Set of ws
    openSockets,                \* the ws whose readyState is OPEN
    userConnections,            \* Map userId -> ws
    connectionUsers,            \* Map ws -> userId
    \* the http server process: its WebSocketClient (class of line 366)
    wsClient,                   \* the fields of the object
    sockets,                    \* the WebSocket objects it created, by number
    retrying,                   \* connect() loops in their 1 s delay
    reconnectTimers,            \* pending timers of handleReconnection
    listenerTimers,             \* pending timers of the 'disconnected' listener
    wire,                       \* the frames ws.send transmitted, in order
    httpServer,                 \* the process that owns the client
    \* observation
    ev,                         \* what the last step did, in order
    envSteps                    \* environment steps taken so far

pollerVars == <<expectedInvoices, processedInvoicesCache, registeredInvoices,
                processedInvoices, isPolling, isConnected, pollingTimer,
                invoiceProcessedCallback>>
loopVars == <<timers, ticks>>
worldVars == <<bucket, disk>>
sessionVars == <<connectedClients, openSockets, userConnections, connectionUsers>>
clientVars == <<wsClient, sockets, retrying, reconnectTimers, listenerTimers, wire,
                httpServer>>
vars == <<pollerVars, loopVars, worldVars, sessionVars, clientVars, ev, envSteps>>

TimerIds == 1..(MaxTimers + 1)
TickIds == 1..MaxTimers

IdleTick ==
    [pc |-> "idle", objects |-> <<>>, idx |-> 0, pn |-> NoNumber,
     playerId |-> "", base64 |-> <<>>]

\* a tick between two awaits of real I/O holds the processor
Busy == \E t \in TickIds : ticks[t].pc = "examine"

ActiveTicks == {t \in TickIds : ticks[t].pc # "idle"}

\* timer chains alive: a pending timer, or a tick that will re-arm one
Chains == Cardinality(timers) + Cardinality(ActiveTicks)

(***************************************************************************)
(* Events a step records in ev.                                            *)
(***************************************************************************)
\* e: what was done; pn: the PO number; who: a player or a socket; key: an object key
Event(e, pn, who, key) == [e |-> e, pn |-> pn, who |-> who, key |-> key]

\* a frame written to a socket by ws.send
Frame(ws, type, pn) == Event(type, pn, ws, <<>>)

Happened(kind, pn) == \E i \in 1..Len(ev) : ev[i].e = kind /\ ev[i].pn = pn


(***************************************************************************)
(* The object store (S3Client.listObjects, S3Client.getObject).            *)
(***************************************************************************)
\* keys in the store's own order (UTF-8 binary order of the real keys)
KeyRank(name) ==
    CASE name = ObjBare1030 -> 1
      [] name = ObjInvoice2001 -> 2
      [] name = ObjInvoice1030 -> 3
      [] name = ObjDraft -> 4
      [] OTHER -> 5

RECURSIVE SortedKeys(_)
SortedKeys(S) ==
    IF S = {} THEN <<>>
    ELSE LET k == CHOOSE x \in S : \A y \in S : KeyRank(x) <= KeyRank(y)
         IN  <<k>> \o SortedKeys(S \ {k})

Reverse(q) == [i \in 1..Len(q) |-> q[Len(q) + 1 - i]]

ObjectInfo(b, k) == [name |-> k, size |-> Len(b[k])]

\* the listings listObjects may resolve with: the order is the store's choice
Listings(b) ==
    LET up == [i \in 1..Cardinality(DOMAIN b) |->
                  ObjectInfo(b, SortedKeys(DOMAIN b)[i])]
    IN  {up, Reverse(up)}

(***************************************************************************)
(* websocket-server.js: session maps and the delivery callback.            *)
(***************************************************************************)
\* the sockets of a set, in a fixed order
RECURSIVE SortedSessions(_)
SortedSessions(S) ==
    IF S = {} THEN <<>>
    ELSE LET k == IF "s1" \in S THEN "s1" ELSE CHOOSE x \in S : TRUE
         IN  <<k>> \o SortedSessions(S \ {k})

\* a notification that looks the socket up under the invoice number
sendInvoiceReadyNotification_ByInvoice(invoiceNumber, processedData) ==
    IF ~MapHas(userConnections, invoiceNumber) THEN <<>>
    ELSE <<Frame(userConnections[invoiceNumber], "invoice_ready", invoiceNumber)>>

\* sendInvoiceReadyNotification: the frames it writes (none when it returns false)
sendInvoiceReadyNotification(invoiceNumber, processedData) ==
    LET playerId == processedData.playerId
    IN  IF playerId = "" THEN <<>>
        ELSE IF ~MapHas(userConnections, playerId) THEN <<>>
        ELSE IF userConnections[playerId] \notin openSockets THEN <<>>
        ELSE <<Frame(userConnections[playerId], "invoice_ready", invoiceNumber)>>

\* a return value that does not look at the socket's readyState
sendInvoiceReadyNotificationReturns_IgnoresReadyState(invoiceNumber, processedData) ==
    IF processedData.playerId = "" THEN "false"
    ELSE IF ~MapHas(userConnections, processedData.playerId) THEN "false"
    ELSE "true"

\* the value sendInvoiceReadyNotification resolves with: its return statements
sendInvoiceReadyNotificationReturns(invoiceNumber, processedData) ==
    IF processedData.playerId = "" THEN "false"
    ELSE IF ~MapHas(userConnections, processedData.playerId) THEN "false"
    ELSE IF userConnections[processedData.playerId] \notin openSockets THEN "false"
    ELSE "true"

\* a callback that writes the invoice_ready frame to every connected client
CallbackEvents_Broadcast(invoiceNumber, processedData) ==
    IF invoiceProcessedCallback
    THEN <<Event("callback", invoiceNumber, processedData.playerId, <<"true">>)>>
         \o [i \in 1..Cardinality(connectedClients) |->
               Frame(SortedSessions(connectedClients)[i], "invoice_ready", invoiceNumber)]
    ELSE <<>>

\* the poller's "if (this.invoiceProcessedCallback) await callback(...)"
CallbackEvents(invoiceNumber, processedData) ==
    IF invoiceProcessedCallback
    THEN <<Event("callback", invoiceNumber, processedData.playerId,
                 <<sendInvoiceReadyNotificationReturns(invoiceNumber, processedData)>>)>>
         \o sendInvoiceReadyNotification(invoiceNumber, processedData)
    ELSE <<>>

\* a registerUser that leaves the reverse entry of the replaced connection
registerUser_KeepsOldReverse(userId, ws) ==
    /\ userConnections' = MapSet(userConnections, userId, ws)
    /\ connectionUsers' = MapSet(connectionUsers, ws, userId)

\* registerUser
registerUser(userId, ws) ==
    /\ userConnections' = MapSet(userConnections, userId, ws)
    /\ connectionUsers' =
         MapSet(IF MapHas(userConnections, userId)
                THEN MapDelete(connectionUsers, userConnections[userId])
                ELSE connectionUsers, ws, userId)

\* unregisterUser
unregisterUser(ws) ==
    IF MapHas(connectionUsers, ws)
    THEN /\ userConnections' = MapDelete(userConnections, connectionUsers[ws])
         /\ connectionUsers' = MapDelete(connectionUsers, ws)
    ELSE UNCHANGED <<userConnections, connectionUsers>>

(***************************************************************************)
(* Initial state: the server process has constructed its poller and        *)
(* initialize() has not yet returned.  The storage directory and the      *)
(* bucket are empty.                                                       *)
(***************************************************************************)
(***************************************************************************)
(* The WebSocketClient of WebSocketClient.js (class of line 366) and the   *)
(* two programs that construct one.  A WebSocket object is a number; 0 is  *)
(* null.                                                                   *)
(***************************************************************************)
SocketIds == 1..MaxSockets

\* the options and the listeners of the http server of part_001
Part001 == [file |-> "part_001", autoReconnect |-> FALSE,
            onDisconnected |-> TRUE, onError |-> TRUE]

\* the options of the http server of part_002, which installs no listener
Part002 == [file |-> "part_002", autoReconnect |-> TRUE,
            onDisconnected |-> FALSE, onError |-> FALSE]

Owners == {Part001, Part002}

\* constructor.  heartbeatTimer tells whether the interval of startHeartbeat
\* is armed; sincePong is the number of heartbeat intervals that have ended
\* since lastPongReceived.
WebSocketClient(options) ==
    [ws |-> 0, isConnected |-> FALSE, reconnectAttempts |-> 0,
     reconnectTimer |-> 0, messageQueue |-> <<>>, isReconnecting |-> FALSE,
     heartbeatTimer |-> FALSE, sincePong |-> 0,
     autoReconnect |-> options.autoReconnect]

\* a WebSocket that `new WebSocket` has not created yet
NoSocket == [readyState |-> "none", promise |-> "none", timeout |-> FALSE,
             handshake |-> FALSE]

InitClient(owner) ==
    /\ httpServer = [owner |-> owner, running |-> TRUE]
    /\ wsClient = WebSocketClient(owner)
    /\ sockets = [k \in SocketIds |-> NoSocket]
    /\ retrying = 0
    /\ reconnectTimers = {}
    /\ listenerTimers = 0
    /\ wire = <<>>

InitMemory ==
    /\ expectedInvoices = EmptyMap
    /\ processedInvoicesCache = {}
    /\ registeredInvoices = <<>>
    /\ processedInvoices = EmptyMap
    /\ isPolling = FALSE
    /\ isConnected = FALSE
    /\ pollingTimer = 0
    /\ invoiceProcessedCallback = FALSE
    /\ timers = {}
    /\ ticks = [t \in TickIds |-> IdleTick]
    /\ connectedClients = {}
    /\ openSockets = {}
    /\ userConnections = EmptyMap
    /\ connectionUsers = EmptyMap

Init ==
    /\ InitMemory
    /\ bucket = EmptyMap
    /\ disk = EmptyMap
    /\ ev = <<>>
    /\ envSteps = 0
    /\ InitClient(Part001)


(***************************************************************************)
(* InvoicePoller, both classes: startPolling, stopPolling, scheduleNextPoll*)
(***************************************************************************)
FreshTimer ==
    CHOOSE h \in TimerIds \ (timers \cup {pollingTimer}) :
        \A g \in TimerIds \ (timers \cup {pollingTimer}) : h <= g

\* scheduleNextPoll: arms a timer unless polling was stopped
scheduleNextPoll ==
    IF isPolling'
    THEN /\ timers' = timers \cup {FreshTimer}
         /\ pollingTimer' = FreshTimer
    ELSE UNCHANGED <<timers, pollingTimer>>

\* startPolling
startPolling ==
    IF isPolling \/ ~isConnected'
    THEN UNCHANGED <<isPolling, timers, pollingTimer>>
    ELSE /\ isPolling' = TRUE
         /\ scheduleNextPoll

\* stopPolling: clearTimeout reaches only the handle last stored
stopPolling ==
    IF ~isPolling
    THEN UNCHANGED <<isPolling, timers, pollingTimer>>
    ELSE /\ isPolling' = FALSE
         /\ timers' = timers \ {pollingTimer}
         /\ pollingTimer' = 0

(***************************************************************************)
(* InvoicePoller, class of line 603.                                       *)
(***************************************************************************)
\* populateProcessedCache: every *.json file name, less its extension
populateProcessedCache(files) ==
    {StripJson(f) : f \in {g \in files : EndsWithJson(g)}}

\* initialize resolves: S3 is reachable, the cache is seeded, polling starts;
\* initializeInvoicePoller then installs the callback
Initialize ==
    /\ ~Busy
    /\ ~isConnected
    /\ isConnected' = TRUE
    /\ processedInvoicesCache' =
         processedInvoicesCache \cup populateProcessedCache(DOMAIN disk)
    /\ startPolling
    /\ invoiceProcessedCallback' = TRUE
    /\ ev' = <<>>
    /\ UNCHANGED <<expectedInvoices, registeredInvoices, processedInvoices, ticks,
                   worldVars, sessionVars, clientVars, envSteps>>

\* registerExpectedInvoice(invoiceNumber, playerId, orderData)
registerExpectedInvoice(invoiceNumber, playerId, summary) ==
    IF invoiceNumber = "" \/ playerId = ""
    THEN expectedInvoices
    ELSE MapSet(expectedInvoices, invoiceNumber,
                [playerId |-> playerId, summary |-> summary])

RegisterExpectedInvoice(n, p, s) ==
    /\ ~Busy
    /\ envSteps < MaxEnvSteps
    /\ envSteps' = envSteps + 1
    /\ expectedInvoices' = registerExpectedInvoice(n, p, s)
    /\ ev' = <<Event("register", n, p, <<>>)>>
    /\ UNCHANGED <<processedInvoicesCache, registeredInvoices, processedInvoices,
                   isPolling, isConnected, pollingTimer, invoiceProcessedCallback,
                   loopVars, worldVars, sessionVars, clientVars>>

\* a lookup that never finds the stored record
ReadOutcome_NeverFinds(n) ==
    IF MapHas(disk, InvoiceFileName(n)) /\ ~disk[InvoiceFileName(n)].complete
    THEN "throws" ELSE "null"

\* fetchInvoiceFromFilesystem: "null" (ENOENT), "throws" (JSON.parse), or "record"
ReadOutcome(n) ==
    IF ~MapHas(disk, InvoiceFileName(n)) THEN "null"
    ELSE IF ~disk[InvoiceFileName(n)].complete THEN "throws"
    ELSE "record"

\* the record saveInvoiceToFilesystem writes for the tick's current object
ProcessedData(t) ==
    LET f == ticks[t].objects[ticks[t].idx]
    IN  [playerId |-> ticks[t].playerId,
         base64Data |-> ticks[t].base64,
         filename |-> f.name,
         fileSize |-> f.size]

FileData(n, data) ==
    [playerId |-> data.playerId, base64Data |-> data.base64Data,
     filename |-> data.filename, fileSize |-> data.fileSize,
     filePath |-> InvoiceFileName(n)]

\* a timer callback that does not call scheduleNextPoll
Finish_NoReschedule(t) ==
    /\ ticks' = [ticks EXCEPT ![t] = IdleTick]
    /\ UNCHANGED <<timers, pollingTimer>>

\* a timer callback that stops rescheduling once the registry is empty
Finish_PausesWhenEmpty(t) ==
    /\ ticks' = [ticks EXCEPT ![t] = IdleTick]
    /\ IF expectedInvoices = EmptyMap
       THEN UNCHANGED <<timers, pollingTimer>>
       ELSE scheduleNextPoll

\* pollForInvoices returns and the timer callback calls scheduleNextPoll
Finish(t) ==
    /\ ticks' = [ticks EXCEPT ![t] = IdleTick]
    /\ scheduleNextPoll

\* checkAndProcessInvoiceFile returned: the for loop takes the next object
Advance(t) ==
    IF ticks[t].idx < Len(ticks[t].objects)
    THEN /\ ticks' = [ticks EXCEPT ![t] =
                        [IdleTick EXCEPT !.pc = "examine",
                                         !.objects = ticks[t].objects,
                                         !.idx = ticks[t].idx + 1]]
         /\ UNCHANGED <<timers, pollingTimer>>
    ELSE Finish(t)

FreeSlot == CHOOSE t \in TickIds \ ActiveTicks : \A u \in TickIds \ ActiveTicks : t <= u

\* the setTimeout callback of scheduleNextPoll: pollForInvoices awaits listObjects
TimerFire(h) ==
    /\ ~Busy
    /\ h \in timers
    /\ timers' = timers \ {h}
    /\ IF isPolling
       THEN ticks' = [ticks EXCEPT ![FreeSlot] = [IdleTick EXCEPT !.pc = "list"]]
       ELSE UNCHANGED ticks
    /\ ev' = <<>>
    /\ UNCHANGED <<pollerVars, worldVars, sessionVars, clientVars, envSteps>>

\* listObjects rejects: the catch of pollForInvoices logs, the tick ends
ListFails(t) ==
    /\ ~Busy
    /\ ticks[t].pc = "list"
    /\ isPolling' = isPolling
    /\ Finish(t)
    /\ ev' = <<Event("listFailed", NoNumber, "", <<>>)>>
    /\ UNCHANGED <<expectedInvoices, processedInvoicesCache, registeredInvoices,
                   processedInvoices, isConnected, invoiceProcessedCallback,
                   worldVars, sessionVars, clientVars, envSteps>>

\* listObjects resolves
ListReturns(t) ==
    /\ ~Busy
    /\ ticks[t].pc = "list"
    /\ isPolling' = isPolling
    /\ \E objects \in Listings(bucket) :
         IF Len(objects) = 0
         THEN Finish(t)
         ELSE /\ ticks' = [ticks EXCEPT ![t] =
                             [IdleTick EXCEPT !.pc = "examine",
                                              !.objects = objects, !.idx = 1]]
              /\ UNCHANGED <<timers, pollingTimer>>
    /\ ev' = <<Event("listed", NoNumber, "", <<>>)>>
    /\ UNCHANGED <<expectedInvoices, processedInvoicesCache, registeredInvoices,
                   processedInvoices, isConnected, invoiceProcessedCallback,
                   worldVars, sessionVars, clientVars, envSteps>>


\* the object the tick is at
CurrentFile(t) == ticks[t].objects[ticks[t].idx]

\* what checkAndProcessInvoiceFile decides before its first await:
\* "filtered" (pollForInvoices does not call it), "noNumber", "unexpected",
\* "cached" (cache hit) or "lookup" (the filesystem is asked)
Verdict(name) ==
    IF ~PassesFilter(name) THEN "filtered"
    ELSE IF extractInvoiceNumber(name) = NoNumber THEN "noNumber"
    ELSE IF ~MapHas(expectedInvoices, extractInvoiceNumber(name)) THEN "unexpected"
    ELSE IF Str(extractInvoiceNumber(name)) \in processedInvoicesCache THEN "cached"
    ELSE "lookup"

\* a loop body without the registry test of line 1046
Examine_Unsolicited(t) ==
    /\ ticks[t].pc = "examine"
    /\ isPolling' = isPolling
    /\ LET name == CurrentFile(t).name
           n == extractInvoiceNumber(name)
       IN  /\ IF ~PassesFilter(name) \/ n = NoNumber
              THEN Advance(t)
              ELSE /\ ticks' = [ticks EXCEPT ![t] =
                        [@ EXCEPT !.pc = IF Str(n) \in processedInvoicesCache
                                         THEN "cacheRead" ELSE "fsRead",
                                  !.pn = n,
                                  !.playerId = IF MapHas(expectedInvoices, n)
                                               THEN expectedInvoices[n].playerId
                                               ELSE ""]]
                   /\ UNCHANGED <<timers, pollingTimer>>
           /\ ev' = <<Event("examine", n, "lookup", name)>>
    /\ UNCHANGED <<expectedInvoices, processedInvoicesCache, registeredInvoices,
                   processedInvoices, isConnected, invoiceProcessedCallback,
                   worldVars, sessionVars, clientVars, envSteps>>

\* pollForInvoices loop body up to the first await of checkAndProcessInvoiceFile
Examine(t) ==
    /\ ticks[t].pc = "examine"
    /\ isPolling' = isPolling
    /\ LET name == CurrentFile(t).name
           n == extractInvoiceNumber(name)
           v == Verdict(name)
       IN  /\ IF v \in {"filtered", "noNumber", "unexpected"}
              THEN Advance(t)
              ELSE /\ ticks' = [ticks EXCEPT ![t] =
                        [@ EXCEPT !.pc = IF v = "cached" THEN "cacheRead" ELSE "fsRead",
                                  !.pn = n,
                                  !.playerId = expectedInvoices[n].playerId]]
                   /\ UNCHANGED <<timers, pollingTimer>>
           /\ ev' = <<Event("examine", n, v, name)>>
    /\ UNCHANGED <<expectedInvoices, processedInvoicesCache, registeredInvoices,
                   processedInvoices, isConnected, invoiceProcessedCallback,
                   worldVars, sessionVars, clientVars, envSteps>>

\* cache hit, fetchInvoiceFromFilesystem resolves: notify from the stored
\* record if there is one, and drop the registration
CacheReadReturns(t) ==
    /\ ~Busy
    /\ ticks[t].pc = "cacheRead"
    /\ ReadOutcome(ticks[t].pn) # "throws"
    /\ isPolling' = isPolling
    /\ LET n == ticks[t].pn
       IN  /\ ev' = (IF ReadOutcome(n) = "record"
                     THEN CallbackEvents(n, disk[InvoiceFileName(n)].data)
                     ELSE <<>>)
                    \o <<Event("consume", n, ticks[t].playerId, <<>>)>>
           /\ expectedInvoices' = MapDelete(expectedInvoices, n)
    /\ Advance(t)
    /\ UNCHANGED <<processedInvoicesCache, registeredInvoices, processedInvoices,
                   isConnected, invoiceProcessedCallback, worldVars, sessionVars, clientVars,
                   envSteps>>

\* cache miss, fetchInvoiceFromFilesystem resolves with a record: remember it,
\* notify from the stored record, drop the registration
FsReadFinds(t) ==
    /\ ~Busy
    /\ ticks[t].pc = "fsRead"
    /\ ReadOutcome(ticks[t].pn) = "record"
    /\ isPolling' = isPolling
    /\ LET n == ticks[t].pn
       IN  /\ processedInvoicesCache' = processedInvoicesCache \cup {Str(n)}
           /\ ev' = <<Event("cacheAdd", n, "", <<>>)>>
                    \o CallbackEvents(n, disk[InvoiceFileName(n)].data)
                    \o <<Event("consume", n, ticks[t].playerId, <<>>)>>
           /\ expectedInvoices' = MapDelete(expectedInvoices, n)
    /\ Advance(t)
    /\ UNCHANGED <<registeredInvoices, processedInvoices, isConnected,
                   invoiceProcessedCallback, worldVars, sessionVars, clientVars, envSteps>>

\* cache miss, no file: processAndStoreInvoice awaits s3Client.getObject
FsReadMisses(t) ==
    /\ ~Busy
    /\ ticks[t].pc = "fsRead"
    /\ ReadOutcome(ticks[t].pn) = "null"
    /\ ticks' = [ticks EXCEPT ![t].pc = "get"]
    /\ ev' = <<Event("getObject", ticks[t].pn, "", CurrentFile(t).name)>>
    /\ UNCHANGED <<pollerVars, timers, worldVars, sessionVars, clientVars, envSteps>>

\* fetchInvoiceFromFilesystem rejects (unreadable or half-written file): the
\* catch of checkAndProcessInvoiceFile logs and the loop goes on
ReadFails(t) ==
    /\ ~Busy
    /\ ticks[t].pc \in {"cacheRead", "fsRead"}
    /\ isPolling' = isPolling
    /\ Advance(t)
    /\ ev' = <<Event("readFailed", ticks[t].pn, "", <<>>)>>
    /\ UNCHANGED <<expectedInvoices, processedInvoicesCache, registeredInvoices,
                   processedInvoices, isConnected, invoiceProcessedCallback,
                   worldVars, sessionVars, clientVars, envSteps>>

\* getObject resolves: the bytes become base64 and writeFile is awaited
GetReturns(t) ==
    /\ ~Busy
    /\ ticks[t].pc = "get"
    /\ MapHas(bucket, CurrentFile(t).name)
    /\ ticks' = [ticks EXCEPT ![t].pc = "write",
                              ![t].base64 = Base64(bucket[CurrentFile(t).name])]
    /\ ev' = <<Event("fetched", ticks[t].pn, "", CurrentFile(t).name)>>
    /\ UNCHANGED <<pollerVars, timers, worldVars, sessionVars, clientVars, envSteps>>

\* getObject rejects: processAndStoreInvoice rethrows, the registration stays
GetFails(t) ==
    /\ ~Busy
    /\ ticks[t].pc = "get"
    /\ isPolling' = isPolling
    /\ Advance(t)
    /\ ev' = <<Event("getFailed", ticks[t].pn, "", CurrentFile(t).name)>>
    /\ UNCHANGED <<expectedInvoices, processedInvoicesCache, registeredInvoices,
                   processedInvoices, isConnected, invoiceProcessedCallback,
                   worldVars, sessionVars, clientVars, envSteps>>

\* a processing that keeps the registration when the callback sent nothing
WriteReturns_KeepUndelivered(t) ==
    /\ ~Busy
    /\ ticks[t].pc = "write"
    /\ isPolling' = isPolling
    /\ LET n == ticks[t].pn
           data == ProcessedData(t)
       IN  /\ disk' = MapSet(disk, InvoiceFileName(n), JsonFile(FileData(n, data)))
           /\ ev' = <<Event("writeFile", n, ticks[t].playerId, InvoiceFileName(n))>>
                    \o CallbackEvents(n, data)
           /\ processedInvoicesCache' = processedInvoicesCache \cup {Str(n)}
           /\ expectedInvoices' =
                IF sendInvoiceReadyNotification(n, data) = <<>>
                THEN expectedInvoices ELSE MapDelete(expectedInvoices, n)
    /\ Advance(t)
    /\ UNCHANGED <<registeredInvoices, processedInvoices, isConnected,
                   invoiceProcessedCallback, bucket, sessionVars, clientVars, envSteps>>

\* writeFile resolves: the callback runs, then the cache and the registry
\* are updated by checkAndProcessInvoiceFile
WriteReturns(t) ==
    /\ ~Busy
    /\ ticks[t].pc = "write"
    /\ isPolling' = isPolling
    /\ LET n == ticks[t].pn
           data == ProcessedData(t)
       IN  /\ disk' = MapSet(disk, InvoiceFileName(n), JsonFile(FileData(n, data)))
           /\ ev' = <<Event("writeFile", n, ticks[t].playerId, InvoiceFileName(n))>>
                    \o CallbackEvents(n, data)
                    \o <<Event("cacheAdd", n, "", <<>>),
                         Event("consume", n, ticks[t].playerId, <<>>)>>
           /\ processedInvoicesCache' = processedInvoicesCache \cup {Str(n)}
           /\ expectedInvoices' = MapDelete(expectedInvoices, n)
    /\ Advance(t)
    /\ UNCHANGED <<registeredInvoices, processedInvoices, isConnected,
                   invoiceProcessedCallback, bucket, sessionVars, clientVars, envSteps>>

\* writeFile rejects, before creating the file or after truncating it
WriteFails(t) ==
    /\ ~Busy
    /\ ticks[t].pc = "write"
    /\ isPolling' = isPolling
    /\ \/ disk' = disk
       \/ disk' = MapSet(disk, InvoiceFileName(ticks[t].pn), PartialFile)
    /\ Advance(t)
    /\ ev' = <<Event("writeFailed", ticks[t].pn, "", <<>>)>>
    /\ UNCHANGED <<expectedInvoices, processedInvoicesCache, registeredInvoices,
                   processedInvoices, isConnected, invoiceProcessedCallback,
                   bucket, sessionVars, clientVars, envSteps>>


(***************************************************************************)
(* The environment of the process.                                         *)
(***************************************************************************)
\* an object is uploaded to the bucket
PutObject(name) ==
    /\ ~Busy
    /\ envSteps < MaxEnvSteps
    /\ envSteps' = envSteps + 1
    /\ ~MapHas(bucket, name)
    /\ bucket' = MapSet(bucket, name, ContentOf(name))
    /\ ev' = <<>>
    /\ UNCHANGED <<pollerVars, loopVars, disk, sessionVars, clientVars>>

\* a socket that no map refers to any more stands for a new connection
FreeSockets ==
    {ws \in Sessions :
        /\ ws \notin connectedClients
        /\ \A u \in DOMAIN userConnections : userConnections[u] # ws}

\* server.on('connection'): the welcome frame
Connection(ws) ==
    /\ ~Busy
    /\ envSteps < MaxEnvSteps
    /\ envSteps' = envSteps + 1
    /\ ws \in FreeSockets
    /\ \A other \in FreeSockets : ws = "s1" \/ other # "s1"
    /\ connectedClients' = connectedClients \cup {ws}
    /\ openSockets' = openSockets \cup {ws}
    /\ ev' = <<Frame(ws, "welcome", NoNumber)>>
    /\ UNCHANGED <<pollerVars, loopVars, worldVars, userConnections, connectionUsers, clientVars>>

\* ws.on('message') with {type: 'register', userId}: registerUser (which logs
\* the connection it replaces) and the register_response frame
MessageRegister(ws, userId) ==
    /\ ~Busy
    /\ envSteps < MaxEnvSteps
    /\ envSteps' = envSteps + 1
    /\ ws \in openSockets
    /\ registerUser(userId, ws)
    /\ ev' = (IF MapHas(userConnections, userId)
              THEN <<Event("reconnected", NoNumber, userConnections[userId],
                           <<userId>>)>>
              ELSE <<>>)
             \o <<Event("register_response", NoNumber, ws, <<userId>>)>>
    /\ UNCHANGED <<pollerVars, loopVars, worldVars, connectedClients, openSockets, clientVars>>

\* the socket leaves readyState OPEN; its 'close' event has not been emitted
SocketClosing(ws) ==
    /\ ~Busy
    /\ envSteps < MaxEnvSteps
    /\ envSteps' = envSteps + 1
    /\ ws \in openSockets
    /\ openSockets' = openSockets \ {ws}
    /\ ev' = <<>>
    /\ UNCHANGED <<pollerVars, loopVars, worldVars, connectedClients,
                   userConnections, connectionUsers, clientVars>>

\* ws.on('close') and ws.on('error')
CloseEvent(ws) ==
    /\ ~Busy
    /\ envSteps < MaxEnvSteps
    /\ envSteps' = envSteps + 1
    /\ ws \in connectedClients
    /\ openSockets' = openSockets \ {ws}
    /\ connectedClients' = connectedClients \ {ws}
    /\ unregisterUser(ws)
    /\ ev' = <<>>
    /\ UNCHANGED <<pollerVars, loopVars, worldVars, clientVars>>

\* the process ends (signal, quit command, crash) and is started again: its
\* memory is that of a new process, the storage directory and the bucket stay.
\* A writeFile that was under way may have written nothing, a part, or all.
WritingTicks == {t \in TickIds : ticks[t].pc = "write"}

Restart ==
    /\ ~Busy
    /\ envSteps < MaxEnvSteps
    /\ envSteps' = envSteps + 1
    /\ isConnected
    /\ \/ disk' = disk
       \/ \E t \in WritingTicks :
            \/ disk' = MapSet(disk, InvoiceFileName(ticks[t].pn), PartialFile)
            \/ disk' = MapSet(disk, InvoiceFileName(ticks[t].pn),
                              JsonFile(FileData(ticks[t].pn, ProcessedData(t))))
    /\ expectedInvoices' = EmptyMap
    /\ processedInvoicesCache' = {}
    /\ registeredInvoices' = <<>>
    /\ processedInvoices' = EmptyMap
    /\ isPolling' = FALSE
    /\ isConnected' = FALSE
    /\ pollingTimer' = 0
    /\ invoiceProcessedCallback' = FALSE
    /\ timers' = {}
    /\ ticks' = [t \in TickIds |-> IdleTick]
    /\ connectedClients' = {}
    /\ openSockets' = {}
    /\ userConnections' = EmptyMap
    /\ connectionUsers' = EmptyMap
    /\ bucket' = bucket
    /\ ev' = <<>>
    /\ UNCHANGED clientVars

(***************************************************************************)
(* Spec: the server process with the poller class of line 603.             *)
(***************************************************************************)
TickStep(t) ==
    \/ ListFails(t)
    \/ ListReturns(t)
    \/ Examine(t)
    \/ CacheReadReturns(t)
    \/ FsReadFinds(t)
    \/ FsReadMisses(t)
    \/ ReadFails(t)
    \/ GetReturns(t)
    \/ GetFails(t)
    \/ WriteReturns(t)
    \/ WriteFails(t)

Next ==
    \/ Initialize
    \/ \E n \in PNs, p \in Players \cup {""}, s \in Summaries :
         RegisterExpectedInvoice(n, p, s)
    \/ \E h \in TimerIds : TimerFire(h)
    \/ \E t \in TickIds : TickStep(t)
    \/ \E name \in ObjNames : PutObject(name)
    \/ \E ws \in Sessions : Connection(ws)
    \/ \E ws \in Sessions, userId \in Players : MessageRegister(ws, userId)
    \/ \E ws \in Sessions : SocketClosing(ws)
    \/ \E ws \in Sessions : CloseEvent(ws)
    \/ Restart

Spec == Init /\ [][Next]_vars


\* the uploads and the order summary of SpecStore
StoreObjNames == {ObjInvoice1030, ObjInvoice2001}

StoreSummaries == {50}

(***************************************************************************)
(* SpecReconnect: the same server, observed from the moment a first        *)
(* client s1 has connected and registered a player: initialize() has       *)
(* returned, the poller polls, nothing is registered or stored yet.        *)
(***************************************************************************)
InitReconnect ==
    /\ expectedInvoices = EmptyMap
    /\ processedInvoicesCache = {}
    /\ registeredInvoices = <<>>
    /\ processedInvoices = EmptyMap
    /\ isPolling = TRUE
    /\ isConnected = TRUE
    /\ pollingTimer = 1
    /\ invoiceProcessedCallback = TRUE
    /\ timers = {1}
    /\ ticks = [t \in TickIds |-> IdleTick]
    /\ connectedClients = {"s1"}
    /\ openSockets = {"s1"}
    /\ \E p \in Players :
         /\ userConnections = MapSet(EmptyMap, p, "s1")
         /\ connectionUsers = MapSet(EmptyMap, "s1", p)
    /\ bucket = EmptyMap
    /\ disk = EmptyMap
    /\ ev = <<>>
    /\ envSteps = 0
    /\ InitClient(Part001)

\* one order summary, the uploads of SpecStore
NextReconnect ==
    \/ Initialize
    \/ Restart
    \/ \E n \in PNs, p \in Players, s \in StoreSummaries :
         RegisterExpectedInvoice(n, p, s)
    \/ \E h \in TimerIds : TimerFire(h)
    \/ \E t \in TickIds : TickStep(t)
    \/ \E name \in StoreObjNames : PutObject(name)
    \/ \E ws \in Sessions : Connection(ws)
    \/ \E ws \in Sessions, userId \in Players : MessageRegister(ws, userId)
    \/ \E ws \in Sessions : SocketClosing(ws)
    \/ \E ws \in Sessions : CloseEvent(ws)

SpecReconnect == InitReconnect /\ [][NextReconnect]_vars

(***************************************************************************)
(* InvoicePoller, class of line 13.  registeredInvoices is a Map iterated   *)
(* while it changes, so it is kept as the sequence of its entries in        *)
(* insertion order; a tick's idx is the position of its Map iterator.       *)
(* The poller is configured as the server does (maxRetries 'Infinity': no   *)
(* retry count ever reaches it).  An entry's age is the number of whole     *)
(* days since its registeredAt; it grows only in SpecExpiry.                *)
(***************************************************************************)
RegIndex(n) ==
    IF \E i \in 1..Len(registeredInvoices) : registeredInvoices[i].pn = n
    THEN CHOOSE i \in 1..Len(registeredInvoices) : registeredInvoices[i].pn = n
    ELSE 0

\* Map.set: a present key keeps its place, a new key goes last
RegSet(n, playerId) ==
    IF RegIndex(n) > 0
    THEN [registeredInvoices EXCEPT ![RegIndex(n)] =
             [pn |-> n, playerId |-> playerId, age |-> 0]]
    ELSE Append(registeredInvoices, [pn |-> n, playerId |-> playerId, age |-> 0])

\* Map.delete
RegDelete(n) == SelectSeq(registeredInvoices, LAMBDA e : e.pn # n)

\* the running iterators after Map.delete(n): those past the entry step back
CursorsAfterDelete(n) ==
    [t \in TickIds |->
        IF RegIndex(n) > 0 /\ ticks[t].pc # "idle" /\ ticks[t].idx >= RegIndex(n)
        THEN [ticks[t] EXCEPT !.idx = @ - 1]
        ELSE ticks[t]]

\* cleanupExpiredRegistrations: the entries registered more than 24 hours ago
\* are deleted
Expired(e) == e.age > 0

cleanupExpiredRegistrations ==
    SelectSeq(registeredInvoices, LAMBDA e : ~Expired(e))

\* the running iterators after the deletions of cleanupExpiredRegistrations
CursorsAfterCleanup ==
    [t \in TickIds |->
        IF ticks[t].pc # "idle"
        THEN [ticks[t] EXCEPT !.idx =
                Len(SelectSeq(SubSeq(registeredInvoices, 1, ticks[t].idx),
                              LAMBDA e : ~Expired(e)))]
        ELSE ticks[t]]

\* `${invoiceNumber}.json` record of saveInvoiceToFilesystem (line 95)
V1FileData(n, data) ==
    [playerId |-> data.playerId, base64Data |-> data.base64Data,
     filename |-> data.filename, fileSize |-> data.fileSize,
     filePath |-> PlainFileName(n)]

\* obj.name.includes(invoiceNumber) && (ends with .pdf || includes 'invoice')
Matches(obj, n) ==
    /\ \E i \in 1..Len(obj.name) : obj.name[i] = n
    /\ PassesFilter(obj.name)

matchingObjects(objects, n) == SelectSeq(objects, LAMBDA obj : Matches(obj, n))

\* initialize resolves; initializeInvoicePoller then installs the callback
V1Initialize ==
    /\ ~Busy
    /\ ~isConnected
    /\ isConnected' = TRUE
    /\ invoiceProcessedCallback' = TRUE
    /\ ev' = <<>>
    /\ UNCHANGED <<expectedInvoices, processedInvoicesCache, registeredInvoices,
                   processedInvoices, isPolling, pollingTimer, loopVars,
                   worldVars, sessionVars, clientVars, envSteps>>

\* registerInvoice(invoiceNumber, playerId): throws on a missing argument
RegisterInvoice(n, p) ==
    /\ ~Busy
    /\ envSteps < MaxEnvSteps
    /\ envSteps' = envSteps + 1
    /\ isPolling \/ ~isConnected \/ Chains < MaxTimers
    /\ isConnected' = isConnected
    /\ IF n = "" \/ p = ""
       THEN UNCHANGED <<registeredInvoices, isPolling, timers, pollingTimer>>
       ELSE /\ registeredInvoices' = RegSet(n, p)
            /\ startPolling
    /\ ev' = <<Event("register", n, p, <<>>)>>
    /\ UNCHANGED <<expectedInvoices, processedInvoicesCache, processedInvoices,
                   invoiceProcessedCallback, ticks, worldVars, sessionVars, clientVars>>

\* startPolling, called by the owner of the poller
StartPolling ==
    /\ ~Busy
    /\ envSteps < MaxEnvSteps
    /\ envSteps' = envSteps + 1
    /\ isPolling \/ ~isConnected \/ Chains < MaxTimers
    /\ isConnected' = isConnected
    /\ startPolling
    /\ ev' = <<>>
    /\ UNCHANGED <<expectedInvoices, processedInvoicesCache, registeredInvoices,
                   processedInvoices, invoiceProcessedCallback, ticks,
                   worldVars, sessionVars, clientVars>>

\* stopPolling, called by the owner of the poller
StopPolling ==
    /\ ~Busy
    /\ envSteps < MaxEnvSteps
    /\ envSteps' = envSteps + 1
    /\ stopPolling
    /\ ev' = <<>>
    /\ UNCHANGED <<expectedInvoices, processedInvoicesCache, registeredInvoices,
                   processedInvoices, isConnected, invoiceProcessedCallback, ticks,
                   worldVars, sessionVars, clientVars>>

\* the setTimeout callback: pollForInvoices returns at once when nothing is
\* registered, else it awaits listObjects
V1TimerFire(h) ==
    /\ ~Busy
    /\ h \in timers
    /\ isPolling' = isPolling
    /\ IF ~isPolling
       THEN /\ timers' = timers \ {h}
            /\ UNCHANGED <<ticks, pollingTimer>>
       ELSE IF Len(registeredInvoices) = 0
       THEN /\ timers' = (timers \ {h}) \cup {FreshTimer}
            /\ pollingTimer' = FreshTimer
            /\ UNCHANGED ticks
       ELSE /\ timers' = timers \ {h}
            /\ ticks' = [ticks EXCEPT ![FreeSlot] = [IdleTick EXCEPT !.pc = "list"]]
            /\ UNCHANGED pollingTimer
    /\ ev' = <<>>
    /\ UNCHANGED <<expectedInvoices, processedInvoicesCache, registeredInvoices,
                   processedInvoices, isConnected, invoiceProcessedCallback,
                   worldVars, sessionVars, clientVars, envSteps>>

\* listObjects rejects: the catch of pollForInvoices logs, the tick ends
V1ListFails(t) ==
    /\ ~Busy
    /\ ticks[t].pc = "list"
    /\ isPolling' = isPolling
    /\ Finish(t)
    /\ ev' = <<Event("listFailed", NoNumber, "", <<>>)>>
    /\ UNCHANGED <<expectedInvoices, processedInvoicesCache, registeredInvoices,
                   processedInvoices, isConnected, invoiceProcessedCallback,
                   worldVars, sessionVars, clientVars, envSteps>>

\* listObjects resolves: the loop over registeredInvoices.entries() begins
V1ListReturns(t) ==
    /\ ~Busy
    /\ ticks[t].pc = "list"
    /\ \E objects \in Listings(bucket) :
         ticks' = [ticks EXCEPT ![t] =
                     [IdleTick EXCEPT !.pc = "examine", !.objects = objects]]
    /\ ev' = <<Event("listed", NoNumber, "", <<>>)>>
    /\ UNCHANGED <<pollerVars, timers, worldVars, sessionVars, clientVars, envSteps>>

\* one turn of the loop: the iterator's next entry goes to
\* checkInvoiceInObjects, which awaits getObject for the first matching
\* object; after the last entry pollForInvoices returns
V1Examine(t) ==
    /\ ticks[t].pc = "examine"
    /\ isPolling' = isPolling
    /\ IF ticks[t].idx < Len(registeredInvoices)
       THEN LET entry == registeredInvoices[ticks[t].idx + 1]
                found == matchingObjects(ticks[t].objects, entry.pn)
            IN  /\ IF Len(found) > 0
                   THEN /\ ticks' = [ticks EXCEPT ![t] =
                               [@ EXCEPT !.pc = "get", !.idx = @ + 1,
                                         !.pn = entry.pn,
                                         !.playerId = entry.playerId]]
                        /\ ev' = <<Event("getObject", entry.pn, "", found[1].name)>>
                   ELSE /\ ticks' = [ticks EXCEPT ![t] =
                               [@ EXCEPT !.idx = @ + 1, !.pn = NoNumber,
                                         !.playerId = "", !.base64 = <<>>]]
                        /\ ev' = <<Event("examine", entry.pn, "notFound", <<>>)>>
                /\ UNCHANGED <<timers, pollingTimer, registeredInvoices>>
       ELSE /\ registeredInvoices' = cleanupExpiredRegistrations
            /\ ticks' = [CursorsAfterCleanup EXCEPT ![t] = IdleTick]
            /\ scheduleNextPoll
            /\ ev' = [i \in 1..Len(SelectSeq(registeredInvoices, Expired)) |->
                        Event("expire", SelectSeq(registeredInvoices, Expired)[i].pn,
                              SelectSeq(registeredInvoices, Expired)[i].playerId, <<>>)]
    /\ UNCHANGED <<expectedInvoices, processedInvoicesCache,
                   processedInvoices, isConnected, invoiceProcessedCallback,
                   worldVars, sessionVars, clientVars, envSteps>>

\* the object the tick is fetching
V1CurrentFile(t) == matchingObjects(ticks[t].objects, ticks[t].pn)[1]

V1ProcessedData(t) ==
    [playerId |-> ticks[t].playerId,
     base64Data |-> ticks[t].base64,
     filename |-> V1CurrentFile(t).name,
     fileSize |-> V1CurrentFile(t).size]

\* getObject resolves: processedInvoices.set, then writeFile is awaited
V1GetReturns(t) ==
    /\ ~Busy
    /\ ticks[t].pc = "get"
    /\ MapHas(bucket, V1CurrentFile(t).name)
    /\ ticks' = [ticks EXCEPT ![t].pc = "write",
                              ![t].base64 = Base64(bucket[V1CurrentFile(t).name])]
    /\ processedInvoices' =
         MapSet(processedInvoices, ticks[t].pn,
                [V1ProcessedData(t) EXCEPT
                    !.base64Data = Base64(bucket[V1CurrentFile(t).name])])
    /\ ev' = <<Event("fetched", ticks[t].pn, "", V1CurrentFile(t).name)>>
    /\ UNCHANGED <<expectedInvoices, processedInvoicesCache, registeredInvoices,
                   isPolling, isConnected, pollingTimer, invoiceProcessedCallback,
                   timers, worldVars, sessionVars, clientVars, envSteps>>

\* getObject rejects: the catch of checkInvoiceInObjects keeps the entry
V1GetFails(t) ==
    /\ ~Busy
    /\ ticks[t].pc = "get"
    /\ ticks' = [ticks EXCEPT ![t].pc = "examine"]
    /\ ev' = <<Event("getFailed", ticks[t].pn, "", V1CurrentFile(t).name)>>
    /\ UNCHANGED <<pollerVars, timers, worldVars, sessionVars, clientVars, envSteps>>

\* what follows saveInvoiceToFilesystem, whether it resolved or rejected
\* (lines 453-470 and 393): the callback, then registeredInvoices.delete
V1AfterSave(t, saved) ==
    /\ ev' = saved
             \o CallbackEvents(ticks[t].pn, V1ProcessedData(t))
             \o <<Event("consume", ticks[t].pn, ticks[t].playerId, <<>>)>>
    /\ registeredInvoices' = RegDelete(ticks[t].pn)
    /\ ticks' = [CursorsAfterDelete(ticks[t].pn) EXCEPT ![t].pc = "examine"]

\* writeFile resolves
V1WriteReturns(t) ==
    /\ ~Busy
    /\ ticks[t].pc = "write"
    /\ disk' = MapSet(disk, PlainFileName(ticks[t].pn),
                      JsonFile(V1FileData(ticks[t].pn, V1ProcessedData(t))))
    /\ V1AfterSave(t, <<Event("writeFile", ticks[t].pn, ticks[t].playerId,
                              PlainFileName(ticks[t].pn))>>)
    /\ UNCHANGED <<expectedInvoices, processedInvoicesCache, processedInvoices,
                   isPolling, isConnected, pollingTimer, invoiceProcessedCallback,
                   timers, bucket, sessionVars, clientVars, envSteps>>

\* writeFile rejects, before creating the file or after truncating it: the
\* inner catch of processAndStoreInvoice logs and processing continues
V1WriteFails(t) ==
    /\ ~Busy
    /\ ticks[t].pc = "write"
    /\ \/ disk' = disk
       \/ disk' = MapSet(disk, PlainFileName(ticks[t].pn), PartialFile)
    /\ V1AfterSave(t, <<Event("writeFailed", ticks[t].pn, "", <<>>)>>)
    /\ UNCHANGED <<expectedInvoices, processedInvoicesCache, processedInvoices,
                   isPolling, isConnected, pollingTimer, invoiceProcessedCallback,
                   timers, bucket, sessionVars, clientVars, envSteps>>

(***************************************************************************)
(* SpecV1: the class of line 13 driven through its public methods.         *)
(***************************************************************************)
V1TickStep(t) ==
    \/ V1ListFails(t)
    \/ V1ListReturns(t)
    \/ V1Examine(t)
    \/ V1GetReturns(t)
    \/ V1GetFails(t)
    \/ V1WriteReturns(t)
    \/ V1WriteFails(t)

NextV1 ==
    \/ V1Initialize
    \/ \E n \in PNs, p \in Players \cup {""} : RegisterInvoice(n, p)
    \/ StartPolling
    \/ StopPolling
    \/ \E h \in TimerIds : V1TimerFire(h)
    \/ \E t \in TickIds : V1TickStep(t)
    \/ \E name \in ObjNames : PutObject(name)

SpecV1 == Init /\ [][NextV1]_vars

(***************************************************************************)
(* SpecExpiry: the class of line 13 running for more than a day.           *)
(***************************************************************************)
\* More than 24 hours pass.  The ticks of that time found no object for any
\* registered number (each only counted a retry), so they are left out.
DayPasses ==
    /\ ~Busy
    /\ \A t \in TickIds : ticks[t].pc = "idle"
    /\ \E i \in 1..Len(registeredInvoices) : ~Expired(registeredInvoices[i])
    /\ \A i \in 1..Len(registeredInvoices) :
          Len(matchingObjects(CHOOSE l \in Listings(bucket) : TRUE,
                              registeredInvoices[i].pn)) = 0
    /\ registeredInvoices' =
          [i \in 1..Len(registeredInvoices) |->
              [registeredInvoices[i] EXCEPT !.age = 1]]
    /\ ev' = <<>>
    /\ UNCHANGED <<expectedInvoices, processedInvoicesCache, processedInvoices,
                   isPolling, isConnected, pollingTimer, invoiceProcessedCallback,
                   loopVars, worldVars, sessionVars, clientVars, envSteps>>

NextExpiry ==
    \/ V1Initialize
    \/ \E n \in PNs, p \in Players : RegisterInvoice(n, p)
    \/ \E h \in TimerIds : V1TimerFire(h)
    \/ \E t \in TickIds : V1TickStep(t)
    \/ \E name \in ObjNames : PutObject(name)
    \/ DayPasses

SpecExpiry == Init /\ [][NextExpiry]_vars

(***************************************************************************)
(* The invoice store of the class of line 603: the methods its owner calls *)
(* with an invoice number.  An invoice number is any string: a PO number,  *)
(* or a name that listInvoicesInFilesystem returned.                       *)
(***************************************************************************)
ListedName(n) == <<"invoice", "_", n>>

StoreKeys == {Str(n) : n \in PNs} \cup {ListedName(n) : n \in PNs}

\* `invoice_${invoiceNumber}.json` of fetchInvoiceFromFilesystem (line 823)
FetchFileName(k) == <<"invoice", "_">> \o k \o <<".json">>

\* `${invoiceNumber}.json` of deleteInvoiceFromFilesystem (line 874)
UnlinkFileName(k) == k \o <<".json">>

\* fetchInvoiceFromFilesystem(invoiceNumber): "null", "throws" or "record"
FetchOutcome(k) ==
    IF ~MapHas(disk, FetchFileName(k)) THEN "null"
    ELSE IF ~disk[FetchFileName(k)].complete THEN "throws"
    ELSE "record"

\* listInvoicesInFilesystem: the *.json names of the directory, less .json
listInvoicesInFilesystem ==
    {StripJson(f) : f \in {g \in DOMAIN disk : EndsWithJson(g)}}

\* the orders in which readdir may hand the names out
RECURSIVE Orders(_)
Orders(S) ==
    IF S = {} THEN {<<>>}
    ELSE UNION {{<<k>> \o rest : rest \in Orders(S \ {k})} : k \in S}

\* the cache and the directory after deleteInvoiceFromFilesystem(k) returned:
\* unlink of `${k}.json`, or ENOENT; the cache entry k goes in both cases
CacheAfterDelete(k) == processedInvoicesCache \ {k}

DiskAfterDelete(k) ==
    IF MapHas(disk, UnlinkFileName(k)) THEN MapDelete(disk, UnlinkFileName(k))
    ELSE disk

\* deleteInvoiceFromFilesystem(k), called by the owner of the poller
DeleteInvoice(k) ==
    /\ ~Busy
    /\ envSteps < MaxEnvSteps
    /\ envSteps' = envSteps + 1
    /\ isConnected
    /\ disk' = DiskAfterDelete(k)
    /\ processedInvoicesCache' = CacheAfterDelete(k)
    /\ ev' = <<Event("delete", "", IF MapHas(disk, UnlinkFileName(k))
                                   THEN "true" ELSE "false", k)>>
    /\ UNCHANGED <<expectedInvoices, registeredInvoices, processedInvoices,
                   isPolling, isConnected, pollingTimer, invoiceProcessedCallback,
                   loopVars, bucket, sessionVars, clientVars>>

\* deleteInvoiceFromFilesystem(k): unlink rejects with an error other than
\* ENOENT, which is thrown to the caller; nothing has changed
DeleteInvoiceFails(k) ==
    /\ ~Busy
    /\ envSteps < MaxEnvSteps
    /\ envSteps' = envSteps + 1
    /\ isConnected
    /\ MapHas(disk, UnlinkFileName(k))
    /\ ev' = <<Event("deleteFailed", "", "", k)>>
    /\ UNCHANGED <<pollerVars, loopVars, worldVars, sessionVars, clientVars>>

\* getProcessedInvoice(k), called by the owner: what its
\* fetchInvoiceFromFilesystem did
GetProcessedInvoice(k) ==
    /\ ~Busy
    /\ envSteps < MaxEnvSteps
    /\ envSteps' = envSteps + 1
    /\ isConnected
    /\ ev' = <<Event("read", "", FetchOutcome(k), k)>>
    /\ UNCHANGED <<pollerVars, loopVars, worldVars, sessionVars, clientVars>>

ClearJobs == {t \in TickIds : ticks[t].pc = "clear"}

\* clearProcessedInvoices(playerId) is called ("" is no argument) and its
\* listInvoicesInFilesystem resolves
ClearStarts(p) ==
    /\ ~Busy
    /\ envSteps < MaxEnvSteps
    /\ envSteps' = envSteps + 1
    /\ isConnected
    /\ ClearJobs = {}
    /\ Chains < MaxTimers
    /\ \E names \in Orders(listInvoicesInFilesystem) :
         ticks' = [ticks EXCEPT ![FreeSlot] =
                     [IdleTick EXCEPT !.pc = "clear", !.objects = names,
                                      !.idx = 1, !.playerId = p]]
    /\ ev' = <<Event("clear", "", p, <<>>)>>
    /\ UNCHANGED <<pollerVars, timers, worldVars, sessionVars, clientVars>>

\* one turn of the loop of clearProcessedInvoices
ClearStep(t) ==
    /\ ~Busy
    /\ ticks[t].pc = "clear"
    /\ ticks[t].idx <= Len(ticks[t].objects)
    /\ LET k == ticks[t].objects[ticks[t].idx]
           doomed == \/ ticks[t].playerId = ""
                     \/ /\ FetchOutcome(k) = "record"
                        /\ disk[FetchFileName(k)].data.playerId = ticks[t].playerId
       IN  /\ FetchOutcome(k) # "throws" \/ ticks[t].playerId = ""
           /\ disk' = IF doomed THEN DiskAfterDelete(k) ELSE disk
           /\ processedInvoicesCache' =
                IF doomed THEN CacheAfterDelete(k) ELSE processedInvoicesCache
           /\ ev' = IF doomed THEN <<Event("delete", "", "cleared", k)>> ELSE <<>>
    /\ ticks' = [ticks EXCEPT ![t].idx = @ + 1]
    /\ UNCHANGED <<expectedInvoices, registeredInvoices, processedInvoices,
                   isPolling, isConnected, pollingTimer, invoiceProcessedCallback,
                   timers, bucket, sessionVars, clientVars, envSteps>>

\* a read or an unlink of the loop rejects (not ENOENT): the catch of
\* clearProcessedInvoices logs and the method returns
ClearFails(t) ==
    /\ ~Busy
    /\ ticks[t].pc = "clear"
    /\ ticks[t].idx <= Len(ticks[t].objects)
    /\ ticks' = [ticks EXCEPT ![t] = IdleTick]
    /\ ev' = <<Event("clearFailed", "", ticks[t].playerId, <<>>)>>
    /\ UNCHANGED <<pollerVars, timers, worldVars, sessionVars, clientVars, envSteps>>

\* the loop is over: without a playerId the whole cache is cleared
ClearEnds(t) ==
    /\ ~Busy
    /\ ticks[t].pc = "clear"
    /\ ticks[t].idx > Len(ticks[t].objects)
    /\ processedInvoicesCache' =
         IF ticks[t].playerId = "" THEN {} ELSE processedInvoicesCache
    /\ ticks' = [ticks EXCEPT ![t] = IdleTick]
    /\ ev' = <<Event("cleared", "", ticks[t].playerId, <<>>)>>
    /\ UNCHANGED <<expectedInvoices, registeredInvoices, processedInvoices,
                   isPolling, isConnected, pollingTimer, invoiceProcessedCallback,
                   timers, worldVars, sessionVars, clientVars, envSteps>>

\* fs.writeFile has opened (truncated) the file and not yet written it all.
\* In Spec nothing reads the directory while a tick writes, so the state
\* between is left out there.
WriteOpens(t) ==
    /\ ~Busy
    /\ ticks[t].pc = "write"
    /\ ReadOutcome(ticks[t].pn) # "throws"
    /\ disk' = MapSet(disk, InvoiceFileName(ticks[t].pn), PartialFile)
    /\ ev' = <<>>
    /\ UNCHANGED <<pollerVars, loopVars, bucket, sessionVars, clientVars, envSteps>>

(***************************************************************************)
(* SpecStore: the class of line 603 polling, with its store methods called *)
(* by its owner.                                                           *)
(***************************************************************************)
\* the bytes of a second version of an object
RevisedContentOf(name) == ContentOf(name) \o <<10, 37>>

\* an object of the bucket is overwritten by a new version of other length
OverwriteObject(name) ==
    /\ ~Busy
    /\ envSteps < MaxEnvSteps
    /\ envSteps' = envSteps + 1
    /\ MapHas(bucket, name)
    /\ bucket[name] = ContentOf(name)
    /\ bucket' = MapSet(bucket, name, RevisedContentOf(name))
    /\ ev' = <<>>
    /\ UNCHANGED <<pollerVars, loopVars, disk, sessionVars, clientVars>>

NextStore ==
    \/ Initialize
    \/ \E n \in PNs, p \in Players, s \in StoreSummaries :
         RegisterExpectedInvoice(n, p, s)
    \/ \E h \in TimerIds : TimerFire(h)
    \/ \E t \in TickIds : TickStep(t)
    \/ \E t \in TickIds : WriteOpens(t)
    \/ \E name \in StoreObjNames : PutObject(name)
    \/ \E name \in StoreObjNames : OverwriteObject(name)
    \/ \E k \in StoreKeys : DeleteInvoice(k)
    \/ \E k \in StoreKeys : DeleteInvoiceFails(k)
    \/ \E k \in StoreKeys : GetProcessedInvoice(k)
    \/ \E p \in Players \cup {""} : ClearStarts(p)
    \/ \E t \in TickIds : ClearStep(t)
    \/ \E t \in TickIds : ClearFails(t)
    \/ \E t \in TickIds : ClearEnds(t)
    \/ Restart

SpecStore == Init /\ [][NextStore]_vars

(***************************************************************************)
(* SpecRoundTrip: saveInvoiceToFilesystem followed by                      *)
(* fetchInvoiceFromFilesystem, over the records processAndStoreInvoice     *)
(* builds.  A time is an instant together with the JavaScript type that    *)
(* carries it: a Date object or an ISO-8601 string.                        *)
(***************************************************************************)
Clock == {1, 2}

\* new Date().toISOString()
IsoString(instant) == [kind |-> "string", instant |-> instant]

\* obj.lastModified as the minio client hands it out: the client's choice of
\* a Date object or a string
LastModifiedValues == {[kind |-> k, instant |-> i] : k \in {"Date", "string"}, i \in Clock}

\* JSON.stringify of a time: a JSON string holding the ISO-8601 text of the
\* instant.  A Date is written by Date.prototype.toJSON, which is
\* toISOString; a string is written as itself.
TimeToJson(v) == [json |-> "string", text |-> v.instant]

\* JSON.parse of a JSON string holding a time: without a reviver, a string
TimeFromJson(j) == IsoString(j.text)

\* the processedData of processAndStoreInvoice for a listed object
Records ==
    {[playerId |-> p,
      base64Data |-> Base64(ContentOf(name)),
      filename |-> name,
      fileSize |-> Len(ContentOf(name)),
      processedAt |-> IsoString(now),
      s3Metadata |-> [s3Key |-> name, s3Size |-> Len(ContentOf(name)),
                      s3LastModified |-> lm]] :
        p \in Players, name \in StoreObjNames, now \in Clock,
        lm \in LastModifiedValues}

\* a fileData whose spread is applied after the added fields and whose
\* filePath is stored under filename
SavedFileData_PathAsFilename(n, r, now) ==
    [playerId |-> r.playerId, base64Data |-> r.base64Data,
     filename |-> InvoiceFileName(n), fileSize |-> r.fileSize,
     processedAt |-> r.processedAt, s3Metadata |-> r.s3Metadata,
     savedAt |-> IsoString(now), filePath |-> InvoiceFileName(n)]

\* {...invoiceData, savedAt, filePath} of saveInvoiceToFilesystem
SavedFileData(n, r, now) ==
    [playerId |-> r.playerId, base64Data |-> r.base64Data,
     filename |-> r.filename, fileSize |-> r.fileSize,
     processedAt |-> r.processedAt, s3Metadata |-> r.s3Metadata,
     savedAt |-> IsoString(now), filePath |-> InvoiceFileName(n)]

\* JSON.stringify(fileData, null, 2): the JSON value the text denotes.
\* Strings and integers are written exactly; times by TimeToJson.
JsonStringify(d) ==
    [playerId |-> d.playerId, base64Data |-> d.base64Data,
     filename |-> d.filename, fileSize |-> d.fileSize,
     processedAt |-> TimeToJson(d.processedAt),
     s3Metadata |-> [s3Key |-> d.s3Metadata.s3Key,
                     s3Size |-> d.s3Metadata.s3Size,
                     s3LastModified |-> TimeToJson(d.s3Metadata.s3LastModified)],
     savedAt |-> TimeToJson(d.savedAt), filePath |-> d.filePath]

\* JSON.parse(data) without a reviver: the object the JSON value denotes
JsonParse(json) ==
    [playerId |-> json.playerId, base64Data |-> json.base64Data,
     filename |-> json.filename, fileSize |-> json.fileSize,
     processedAt |-> TimeFromJson(json.processedAt),
     s3Metadata |-> [s3Key |-> json.s3Metadata.s3Key,
                     s3Size |-> json.s3Metadata.s3Size,
                     s3LastModified |-> TimeFromJson(json.s3Metadata.s3LastModified)],
     savedAt |-> TimeFromJson(json.savedAt), filePath |-> json.filePath]

\* saveInvoiceToFilesystem(n, r) resolves
StorePut(n, r) ==
    /\ ev = <<>> \/ Len(ev) = 2
    /\ \E now \in {c \in Clock : c >= r.processedAt.instant} :
         disk' = MapSet(disk, InvoiceFileName(n),
                        JsonFile(JsonStringify(SavedFileData(n, r, now))))
    /\ ev' = <<Event("put", n, r, InvoiceFileName(n))>>
    /\ UNCHANGED <<pollerVars, loopVars, bucket, sessionVars, clientVars, envSteps>>

\* fetchInvoiceFromFilesystem(n) resolves, after the put of n
StoreGet(n) ==
    /\ Len(ev) = 1
    /\ ev[1].e = "put" /\ ev[1].pn = n
    /\ ev' = ev \o <<Event("get", n, JsonParse(disk[InvoiceFileName(n)].data),
                           InvoiceFileName(n))>>
    /\ UNCHANGED <<pollerVars, loopVars, worldVars, sessionVars, clientVars, envSteps>>

NextRoundTrip ==
    \/ \E n \in PNs, r \in Records : StorePut(n, r)
    \/ \E n \in PNs : StoreGet(n)

SpecRoundTrip == Init /\ [][NextRoundTrip]_vars

(***************************************************************************)
(* SpecFrames: the message handler of websocket-server.js, frame type by   *)
(* frame type.  The poller is the object the server constructed;           *)
(* initialize() has not returned, so nothing polls.  Every handler run     *)
(* starts with the event of the frame it received.                         *)
(***************************************************************************)
Received(ws, type) == Event("message", NoNumber, ws, <<type>>)

\* httpClient.post(path, ...) is issued
HttpPost(ws, path) == Event("httpPost", NoNumber, ws, <<path>>)

\* sendToUser(userId, message): the frame, if the user's socket is OPEN
sendToUser(userId, type) ==
    IF MapHas(userConnections, userId) /\ userConnections[userId] \in openSockets
    THEN <<Frame(userConnections[userId], type, NoNumber)>>
    ELSE <<>>

\* {type: 'invoice_register', userId, po, playerId}: registerInvoice of the
\* server calls invoicePoller.registerInvoice and swallows what it throws; the
\* response is sent in either case
MessageInvoiceRegister(ws, po, playerId) ==
    /\ ~Busy
    /\ envSteps < MaxEnvSteps
    /\ envSteps' = envSteps + 1
    /\ ws \in openSockets
    /\ IF po = "" \/ playerId = ""
       THEN UNCHANGED <<registeredInvoices, isPolling, timers, pollingTimer>>
       ELSE /\ registeredInvoices' = RegSet(po, playerId)
            /\ isConnected' = isConnected
            /\ startPolling
    /\ ev' = <<Received(ws, "invoice_register"),
               Frame(ws, "invoice_register_response", po)>>
    /\ UNCHANGED <<expectedInvoices, processedInvoicesCache, processedInvoices,
                   isConnected, invoiceProcessedCallback, ticks, worldVars,
                   sessionVars, clientVars>>

\* {type: 'game_event', event: 'game_over'}: forwarded to the HTTP server;
\* a failure of the post is only logged
MessageGameOver(ws) ==
    /\ ~Busy
    /\ envSteps < MaxEnvSteps
    /\ envSteps' = envSteps + 1
    /\ ws \in openSockets
    /\ ev' = <<Received(ws, "game_event"), HttpPost(ws, "/game-over")>>
    /\ UNCHANGED <<pollerVars, loopVars, worldVars, sessionVars, clientVars>>

\* {type: 'order'}: processOrder posts the order to the HTTP server; the
\* order_response frame is written when that request settles
MessageOrder(ws) ==
    /\ ~Busy
    /\ envSteps < MaxEnvSteps
    /\ envSteps' = envSteps + 1
    /\ ws \in openSockets
    /\ ev' = <<Received(ws, "order"), HttpPost(ws, "/process-order")>>
    /\ UNCHANGED <<pollerVars, loopVars, worldVars, sessionVars, clientVars>>

\* {type: 'send-to', targetUserId, message}
MessageSendTo(ws, targetUserId) ==
    /\ ~Busy
    /\ envSteps < MaxEnvSteps
    /\ envSteps' = envSteps + 1
    /\ ws \in openSockets
    /\ ev' = <<Received(ws, "send-to")>>
             \o sendToUser(targetUserId, "direct_message")
             \o <<Frame(ws, "send_response", NoNumber)>>
    /\ UNCHANGED <<pollerVars, loopVars, worldVars, sessionVars, clientVars>>

\* A command is the sequence of its space-separated words.  The commands of
\* handleCommand that SpecFrames draws: a game command, which is fanned out
\* to every connected client, and one that only logs
Commands == {<<"start">>, <<"status">>}

\* broadcastToUsers(message): the frames, one per registered user whose
\* socket is OPEN, in the order of userConnections.forEach
broadcastToUsers(type) ==
    LET open == SortedSessions({ws \in openSockets :
                   \E u \in DOMAIN userConnections : userConnections[u] = ws})
    IN  [i \in 1..Len(open) |-> Frame(open[i], type, NoNumber)]

\* connectedClients.forEach(client => if OPEN, client.send(message))
sendToClients(type) ==
    LET open == SortedSessions(connectedClients \cap openSockets)
    IN  [i \in 1..Len(open) |-> Frame(open[i], type, NoNumber)]

\* the frames handleCommand(command) writes
handleCommand(command) ==
    IF command[1] \in {"quit", "exit"} /\ Len(command) = 1 THEN <<>>
    ELSE IF command[1] = "send-to"
    THEN IF Len(command) < 3 THEN <<>>
         ELSE sendToUser(command[2], "direct_message")
    ELSE IF command[1] = "broadcast"
    THEN IF Len(command) < 2 THEN <<>>
         ELSE broadcastToUsers("broadcast_message")
    ELSE IF command[1] \in {"start", "pause", "new", "endgame"} /\ Len(command) = 1
    THEN sendToClients("command")
    ELSE IF command = <<"invoice">>
    THEN sendToClients("invoice_pdf")
    ELSE <<>>

\* server.close(); rl.close(); process.exit(0): the process ends and, started
\* again, has the memory of a new process (as in Restart)
ProcessExits ==
    /\ \/ disk' = disk
       \/ \E t \in WritingTicks :
            \/ disk' = MapSet(disk, InvoiceFileName(ticks[t].pn), PartialFile)
            \/ disk' = MapSet(disk, InvoiceFileName(ticks[t].pn),
                              JsonFile(FileData(ticks[t].pn, ProcessedData(t))))
    /\ expectedInvoices' = EmptyMap
    /\ processedInvoicesCache' = {}
    /\ registeredInvoices' = <<>>
    /\ processedInvoices' = EmptyMap
    /\ isPolling' = FALSE
    /\ isConnected' = FALSE
    /\ pollingTimer' = 0
    /\ invoiceProcessedCallback' = FALSE
    /\ timers' = {}
    /\ ticks' = [t \in TickIds |-> IdleTick]
    /\ connectedClients' = {}
    /\ openSockets' = {}
    /\ userConnections' = EmptyMap
    /\ connectionUsers' = EmptyMap
    /\ bucket' = bucket

\* a frame with a command field and source 'admin-panel': handleCommand runs
\* with the command as received
MessageCommand(ws, command) ==
    /\ ~Busy
    /\ envSteps < MaxEnvSteps
    /\ envSteps' = envSteps + 1
    /\ ws \in openSockets
    /\ IF command \in {<<"quit">>, <<"exit">>}
       THEN /\ ProcessExits
            /\ ev' = <<Received(ws, "command"),
                       Event("handleCommand", NoNumber, ws, command),
                       Event("server.close", NoNumber, ws, <<>>),
                       Event("process.exit", NoNumber, ws, <<>>)>>
       ELSE /\ ev' = <<Received(ws, "command"),
                       Event("handleCommand", NoNumber, ws, command)>>
                     \o handleCommand(command)
            /\ UNCHANGED <<pollerVars, loopVars, worldVars, sessionVars>>
    /\ UNCHANGED clientVars

\* a frame of any other type, or one that is not JSON: the handler returns
MessageOther(ws) ==
    /\ ~Busy
    /\ envSteps < MaxEnvSteps
    /\ envSteps' = envSteps + 1
    /\ ws \in openSockets
    /\ ev' = <<Received(ws, "raw")>>
    /\ UNCHANGED <<pollerVars, loopVars, worldVars, sessionVars, clientVars>>

NextFrames ==
    \/ \E ws \in Sessions : Connection(ws)
    \/ \E ws \in Sessions, userId \in Players : MessageRegister(ws, userId)
    \/ \E ws \in Sessions, po \in PNs, playerId \in Players :
         MessageInvoiceRegister(ws, po, playerId)
    \/ \E ws \in Sessions : MessageGameOver(ws)
    \/ \E ws \in Sessions : MessageOrder(ws)
    \/ \E ws \in Sessions, targetUserId \in Players : MessageSendTo(ws, targetUserId)
    \/ \E ws \in Sessions, command \in Commands : MessageCommand(ws, command)
    \/ \E ws \in Sessions : MessageOther(ws)
    \/ \E ws \in Sessions : SocketClosing(ws)
    \/ \E ws \in Sessions : CloseEvent(ws)

SpecFrames == Init /\ [][NextFrames]_vars

(***************************************************************************)
(* SpecCommands: sessions and the admin-panel branch of the message        *)
(* handler, with handleCommand run on every kind of command string.        *)
(***************************************************************************)
\* command strings a frame may carry, as word sequences
AdminCommands ==
    {<<"quit">>, <<"exit">>, <<"status">>, <<"start">>, <<"endgame">>,
     <<"send-to", "alice", "hi">>, <<"send-to", "alice">>,
     <<"broadcast", "hi">>, <<"invoice">>, <<"bogus">>}

NextCommands ==
    \/ \E ws \in Sessions : Connection(ws)
    \/ \E ws \in Sessions, userId \in Players : MessageRegister(ws, userId)
    \/ \E ws \in Sessions, command \in AdminCommands : MessageCommand(ws, command)
    \/ \E ws \in Sessions : SocketClosing(ws)
    \/ \E ws \in Sessions : CloseEvent(ws)

SpecCommands == Init /\ [][NextCommands]_vars

(***************************************************************************)
(* SpecClient: the http server process and its WebSocketClient.  A step is *)
(* one run of the process between two awaits: a call by the owner, an      *)
(* event of a WebSocket object, or a timer.  Timers fire in any order.     *)
(* connect(maxAttempts) is called with 10, 30 or 100: no loop reaches its  *)
(* last attempt within MaxSockets sockets.  The methods that write several *)
(* fields are functions of the record c == [client, timers, wire]; rs maps *)
(* a WebSocket object to its readyState during the run.                    *)
(***************************************************************************)
Messages == {"m1", "m2"}

RegistrationMessage == "register"

\* maxReconnectAttempts of the constructor's config (also part_002 line 24)
maxReconnectAttempts == 5

ClientState == [client |-> wsClient, timers |-> reconnectTimers, wire |-> wire]

ReadyStates == [k \in SocketIds |-> sockets[k].readyState]

NewHandle(c) ==
    1 + (CHOOSE h \in c.timers \cup {c.client.reconnectTimer} :
           \A g \in c.timers \cup {c.client.reconnectTimer} : g <= h)

handleReconnection(c) ==
    IF c.client.reconnectAttempts >= maxReconnectAttempts
    THEN c                               \* emits maxReconnectAttemptsReached
    ELSE [c EXCEPT !.client.isReconnecting = TRUE,
                   !.client.reconnectAttempts = @ + 1,
                   !.client.reconnectTimer = NewHandle(c),
                   !.timers = @ \cup {NewHandle(c)}]

\* send(message); ws.send of an OPEN socket does not throw
send(c, rs, message) ==
    IF \/ ~c.client.isConnected
       \/ c.client.ws = 0
       \/ rs[c.client.ws] # "OPEN"
    THEN LET q == [c EXCEPT !.client.messageQueue = Append(@, message)]
         IN  IF ~q.client.isReconnecting /\ q.client.autoReconnect
             THEN handleReconnection(q)
             ELSE q
    ELSE [c EXCEPT !.wire = Append(@, [socket |-> c.client.ws,
                                       message |-> message])]

register(c, rs) == send(c, rs, RegistrationMessage)

RECURSIVE forEachSend(_, _, _)
forEachSend(c, rs, messages) ==
    IF messages = <<>> THEN c
    ELSE forEachSend(send(c, rs, Head(messages)), rs, Tail(messages))

processMessageQueue(c, rs) ==
    IF c.client.messageQueue = <<>> THEN c
    ELSE forEachSend([c EXCEPT !.client.messageQueue = <<>>], rs,
                     c.client.messageQueue)

\* the 'open' handler of attemptConnection
OnOpen(c, rs) ==
    processMessageQueue(
        register([c EXCEPT !.client.isConnected = TRUE,
                           !.client.reconnectAttempts = 0,
                           !.client.isReconnecting = FALSE,
                           !.client.sincePong = 0,
                           !.client.heartbeatTimer = TRUE], rs), rs)

\* the 'close' handler of attemptConnection, up to its reject
OnClose(c) ==
    LET d == [c EXCEPT !.client.isConnected = FALSE,
                       !.client.heartbeatTimer = FALSE]
    IN  IF d.client.autoReconnect /\ ~d.client.isReconnecting
        THEN handleReconnection(d)
        ELSE d

Becomes(c) ==
    /\ wsClient' = c.client
    /\ reconnectTimers' = c.timers
    /\ wire' = c.wire

ServerUnchanged == UNCHANGED <<pollerVars, loopVars, worldVars, sessionVars>>

CanCreate == \E k \in SocketIds : sockets[k].readyState = "none"

NewSocket == CHOOSE k \in SocketIds :
                 /\ sockets[k].readyState = "none"
                 /\ \A j \in SocketIds : sockets[j].readyState = "none" => k <= j

\* connect() up to its first await: attemptConnection creates the WebSocket,
\* stores it in this.ws and arms the connection timeout
attemptConnection ==
    /\ CanCreate
    /\ sockets' = [sockets EXCEPT ![NewSocket] =
                     [readyState |-> "CONNECTING", promise |-> "pending",
                      timeout |-> TRUE, handshake |-> FALSE]]
    /\ wsClient' = [wsClient EXCEPT !.ws = NewSocket]

\* the owner's call of connect() when its http server starts listening
Connect ==
    /\ httpServer.running
    /\ \A k \in SocketIds : sockets[k].readyState = "none"
    /\ attemptConnection
    /\ ev' = <<>>
    /\ ServerUnchanged
    /\ UNCHANGED <<retrying, reconnectTimers, listenerTimers, wire, httpServer,
                   envSteps>>

\* the owner's call of send(message) (part_001 line 112, part_002 line 109)
Send(message) ==
    /\ httpServer.running
    /\ envSteps < MaxEnvSteps
    /\ envSteps' = envSteps + 1
    /\ Becomes(send(ClientState, ReadyStates, message))
    /\ ev' = <<>>
    /\ ServerUnchanged
    /\ UNCHANGED <<sockets, retrying, listenerTimers, httpServer>>

\* 'open' of WebSocket k: the handler, then resolve(true), which ends the
\* connect() loop that awaits k unless the promise was rejected before
SocketOpens(k) ==
    /\ httpServer.running
    /\ sockets[k].readyState = "CONNECTING"
    /\ Becomes(OnOpen(ClientState, [ReadyStates EXCEPT ![k] = "OPEN"]))
    /\ sockets' = [sockets EXCEPT ![k] =
                     [readyState |-> "OPEN",
                      promise |-> IF @.promise = "pending" THEN "resolved"
                                  ELSE @.promise,
                      timeout |-> FALSE, handshake |-> TRUE]]
    /\ ev' = <<>>
    /\ ServerUnchanged
    /\ UNCHANGED <<retrying, listenerTimers, httpServer, envSteps>>

\* the readyState a WebSocket shows to its own 'error' and 'close' handlers
\* when its connection attempt fails: the `ws` package decides
FailedReadyStates == {"CONNECTING", "CLOSED"}

\* `this.ws.readyState === WebSocket.CONNECTING` in a handler of WebSocket k
\* that shows readyState seen
CurrentIsConnecting(k, seen) ==
    IF wsClient.ws = k THEN seen = "CONNECTING"
    ELSE sockets[wsClient.ws].readyState = "CONNECTING"

\* the connection attempt of WebSocket k fails: 'error', then 'close'.  The
\* client emits 'error'; an EventEmitter without an 'error' listener throws,
\* and nothing in the process catches it.  With this.ws null (after
\* disconnect) the handler's `this.ws.readyState` throws a TypeError.
SocketFails(k, seen) ==
    /\ httpServer.running
    /\ \/ sockets[k].readyState = "CONNECTING"
       \/ /\ sockets[k].readyState = "CLOSING"
          /\ ~sockets[k].handshake
          /\ seen = "CLOSED"
    /\ IF ~httpServer.owner.onError \/ wsClient.ws = 0
       THEN /\ httpServer' = [httpServer EXCEPT !.running = FALSE]
            /\ sockets' = [sockets EXCEPT ![k].readyState = "CLOSED",
                                          ![k].timeout = FALSE]
            /\ UNCHANGED <<wsClient, retrying, reconnectTimers, listenerTimers,
                           wire>>
       ELSE /\ Becomes(OnClose(ClientState))
            /\ listenerTimers' = IF httpServer.owner.onDisconnected
                                 THEN listenerTimers + 1 ELSE listenerTimers
            /\ LET rejected == /\ sockets[k].promise = "pending"
                               /\ CurrentIsConnecting(k, seen)
               IN  /\ sockets' = [sockets EXCEPT ![k] =
                                    [readyState |-> "CLOSED",
                                     promise |-> IF rejected THEN "rejected"
                                                 ELSE @.promise,
                                     timeout |-> FALSE, handshake |-> FALSE]]
                   /\ retrying' = IF rejected THEN retrying + 1 ELSE retrying
            /\ UNCHANGED httpServer
    /\ ev' = <<>>
    /\ ServerUnchanged
    /\ UNCHANGED envSteps

\* 'close' of a WebSocket k whose handshake had completed: the connection
\* ends, or terminate() was called on the OPEN socket
SocketCloses(k) ==
    /\ httpServer.running
    /\ sockets[k].handshake
    /\ sockets[k].readyState \in {"OPEN", "CLOSING"}
    /\ Becomes(OnClose(ClientState))
    /\ listenerTimers' = IF httpServer.owner.onDisconnected
                         THEN listenerTimers + 1 ELSE listenerTimers
    /\ sockets' = [sockets EXCEPT ![k].readyState = "CLOSED",
                                  ![k].handshake = FALSE]
    /\ httpServer' = IF wsClient.ws = 0     \* this.ws.readyState throws
                     THEN [httpServer EXCEPT !.running = FALSE]
                     ELSE httpServer
    /\ ev' = <<>>
    /\ ServerUnchanged
    /\ UNCHANGED <<retrying, envSteps>>

\* the connection timeout of WebSocket k: it looks at this.ws, terminates
\* it and rejects the promise of k
ConnectTimeout(k) ==
    /\ httpServer.running
    /\ sockets[k].timeout
    /\ LET fires == /\ wsClient.ws # 0
                    /\ sockets[wsClient.ws].readyState = "CONNECTING"
           rejected == fires /\ sockets[k].promise = "pending"
           cleared == [sockets EXCEPT ![k].timeout = FALSE,
                                      ![k].promise = IF rejected THEN "rejected"
                                                     ELSE @]
       IN  /\ sockets' = IF fires
                         THEN [cleared EXCEPT ![wsClient.ws].readyState = "CLOSING"]
                         ELSE cleared
           /\ retrying' = IF rejected THEN retrying + 1 ELSE retrying
    /\ httpServer' = IF wsClient.ws = 0     \* this.ws.readyState throws
                     THEN [httpServer EXCEPT !.running = FALSE]
                     ELSE httpServer
    /\ ev' = <<>>
    /\ ServerUnchanged
    /\ UNCHANGED <<wsClient, reconnectTimers, listenerTimers, wire, envSteps>>

\* the 1 s delay of a connect() loop ends: its next attempt
RetryFires ==
    /\ httpServer.running
    /\ retrying > 0
    /\ retrying' = retrying - 1
    /\ attemptConnection
    /\ ev' = <<>>
    /\ ServerUnchanged
    /\ UNCHANGED <<reconnectTimers, listenerTimers, wire, httpServer, envSteps>>

\* a timer of handleReconnection fires: connect()
ReconnectTimerFires(h) ==
    /\ httpServer.running
    /\ h \in reconnectTimers
    /\ reconnectTimers' = reconnectTimers \ {h}
    /\ attemptConnection
    /\ ev' = <<>>
    /\ ServerUnchanged
    /\ UNCHANGED <<retrying, listenerTimers, wire, httpServer, envSteps>>

\* the timer of the 'disconnected' listener of part_001 fires: connect(10)
ListenerTimerFires ==
    /\ httpServer.running
    /\ listenerTimers > 0
    /\ listenerTimers' = listenerTimers - 1
    /\ attemptConnection
    /\ ev' = <<>>
    /\ ServerUnchanged
    /\ UNCHANGED <<retrying, reconnectTimers, wire, httpServer, envSteps>>

InitClientSpec ==
    /\ InitMemory
    /\ bucket = EmptyMap
    /\ disk = EmptyMap
    /\ ev = <<>>
    /\ envSteps = 0
    /\ \E owner \in Owners : InitClient(owner)

NextClient ==
    \/ Connect
    \/ \E message \in Messages : Send(message)
    \/ \E k \in SocketIds : SocketOpens(k)
    \/ \E k \in SocketIds, seen \in FailedReadyStates : SocketFails(k, seen)
    \/ \E k \in SocketIds : SocketCloses(k)
    \/ \E k \in SocketIds : ConnectTimeout(k)
    \/ RetryFires
    \/ \E h \in 1..(MaxSockets + maxReconnectAttempts) : ReconnectTimerFires(h)
    \/ ListenerTimerFires

SpecClient == InitClientSpec /\ [][NextClient]_vars

(***************************************************************************)
(* SpecHeartbeat: SpecClient with the interval of startHeartbeat and the   *)
(* pong frames of the server.  Both owners leave enableHeartbeat at true.  *)
(***************************************************************************)
\* timeSinceLastPong > 2 * heartbeatInterval, in whole intervals
MaxSilence == 2

\* the callback of the interval of startHeartbeat
HeartbeatFires ==
    /\ httpServer.running
    /\ wsClient.heartbeatTimer
    /\ envSteps < MaxEnvSteps
    /\ envSteps' = envSteps + 1
    /\ LET elapsed == IF wsClient.sincePong > MaxSilence
                      THEN wsClient.sincePong ELSE wsClient.sincePong + 1
           live == /\ wsClient.isConnected
                   /\ wsClient.ws # 0
                   /\ sockets[wsClient.ws].readyState = "OPEN"
       IN  /\ wsClient' = [wsClient EXCEPT !.sincePong = elapsed]
           /\ IF live /\ elapsed > MaxSilence
              THEN /\ sockets' = [sockets EXCEPT
                                    ![wsClient.ws].readyState = "CLOSING"]
                   /\ ev' = <<Event("terminate", NoNumber, "", <<wsClient.ws>>)>>
                   /\ UNCHANGED wire
              ELSE IF live
              THEN /\ wire' = Append(wire, [socket |-> wsClient.ws,
                                            message |-> "ping"])
                   /\ ev' = <<Event("ping", NoNumber, "", <<wsClient.ws>>)>>
                   /\ UNCHANGED sockets
              ELSE /\ ev' = <<Event("heartbeat", NoNumber, "", <<>>)>>
                   /\ UNCHANGED <<sockets, wire>>
    /\ ServerUnchanged
    /\ UNCHANGED <<retrying, reconnectTimers, listenerTimers, httpServer>>

\* 'pong' of WebSocket k
PongArrives(k) ==
    /\ httpServer.running
    /\ sockets[k].readyState = "OPEN"
    /\ wsClient' = [wsClient EXCEPT !.sincePong = 0]
    /\ ev' = <<Event("pong", NoNumber, "", <<k>>)>>
    /\ ServerUnchanged
    /\ UNCHANGED <<sockets, retrying, reconnectTimers, listenerTimers, wire,
                   httpServer, envSteps>>

\* the owner sends nothing
NextHeartbeat ==
    \/ Connect
    \/ \E k \in SocketIds : SocketOpens(k)
    \/ \E k \in SocketIds, seen \in FailedReadyStates : SocketFails(k, seen)
    \/ \E k \in SocketIds : SocketCloses(k)
    \/ \E k \in SocketIds : ConnectTimeout(k)
    \/ RetryFires
    \/ \E h \in 1..(MaxSockets + maxReconnectAttempts) : ReconnectTimerFires(h)
    \/ ListenerTimerFires
    \/ HeartbeatFires
    \/ \E k \in SocketIds : PongArrives(k)

SpecHeartbeat == InitClientSpec /\ [][NextHeartbeat]_vars

(***************************************************************************)
(* SpecQueue: the http server of part_002 (autoReconnect true) from its    *)
(* start.  Only the first connection attempt can fail: after it the server *)
(* is reachable and stays so, and an established connection stays up.      *)
(* Timers fire and a CONNECTING socket whose server is reachable opens.    *)
(***************************************************************************)
InitQueue ==
    /\ InitMemory
    /\ bucket = EmptyMap
    /\ disk = EmptyMap
    /\ ev = <<>>
    /\ envSteps = 0
    /\ InitClient(Part002)

\* requests are served once the http server listens, which is when it has
\* called connect()
NextQueue ==
    \/ Connect
    \/ \E message \in Messages : wsClient.ws # 0 /\ Send(message)
    \/ \E k \in SocketIds : SocketOpens(k)
    \/ \E seen \in FailedReadyStates : SocketFails(1, seen)
    \/ \E h \in 1..(MaxSockets + maxReconnectAttempts) : ReconnectTimerFires(h)

FairQueue ==
    /\ WF_vars(Connect)
    /\ \A k \in SocketIds : WF_vars(SocketOpens(k))
    /\ \A h \in 1..(MaxSockets + maxReconnectAttempts) :
           WF_vars(ReconnectTimerFires(h))

SpecQueue == InitQueue /\ [][NextQueue]_vars

SpecQueueFair == SpecQueue /\ FairQueue

(***************************************************************************)
(* SpecDisconnect: the client with a caller that may call disconnect() at  *)
(* any time and goes on running.  (The signal handlers of part_001 and     *)
(* part_002 call process.exit(0) right after disconnect().)                *)
(***************************************************************************)
\* ws.close(): an OPEN socket starts the closing handshake, a CONNECTING
\* one aborts its handshake ('error' and 'close' follow)
close(readyState) ==
    IF readyState \in {"OPEN", "CONNECTING"} THEN "CLOSING" ELSE readyState

\* disconnect(), called once connect() has been called
Disconnect ==
    /\ httpServer.running
    /\ \E k \in SocketIds : sockets[k].readyState # "none"
    /\ envSteps < MaxEnvSteps
    /\ envSteps' = envSteps + 1
    /\ wsClient' = [wsClient EXCEPT !.autoReconnect = FALSE,
                                    !.reconnectTimer = 0,
                                    !.heartbeatTimer = FALSE,
                                    !.ws = 0,
                                    !.isConnected = FALSE,
                                    !.isReconnecting = FALSE,
                                    !.reconnectAttempts = 0,
                                    !.messageQueue = <<>>,
                                    !.sincePong = 0]
    /\ reconnectTimers' = reconnectTimers \ {wsClient.reconnectTimer}
    /\ sockets' = IF wsClient.ws = 0 THEN sockets
                  ELSE [sockets EXCEPT ![wsClient.ws].readyState = close(@)]
    /\ listenerTimers' = IF httpServer.owner.onDisconnected
                         THEN listenerTimers + 1 ELSE listenerTimers
    /\ ev' = <<Event("disconnect", NoNumber, "", <<>>)>>
    /\ ServerUnchanged
    /\ UNCHANGED <<retrying, wire, httpServer>>

NextDisconnect ==
    \/ Connect
    \/ \E k \in SocketIds : SocketOpens(k)
    \/ \E k \in SocketIds, seen \in FailedReadyStates : SocketFails(k, seen)
    \/ \E k \in SocketIds : SocketCloses(k)
    \/ \E k \in SocketIds : ConnectTimeout(k)
    \/ RetryFires
    \/ \E h \in 1..(MaxSockets + maxReconnectAttempts) : ReconnectTimerFires(h)
    \/ ListenerTimerFires
    \/ Disconnect

SpecDisconnect == InitClientSpec /\ [][NextDisconnect]_vars

(***************************************************************************)
(* SpecNames: the filter of pollForInvoices and extractInvoiceNumber       *)
(* applied to object names.  A name is a sequence of tokens; two digit     *)
(* groups are never adjacent (they would be one group).                    *)
(***************************************************************************)
MaxNameLen == 5

NameTokens == {"invoice", "Invoice", "_", "1030", "2001", ".pdf", "draft"}

Names ==
    {name \in UNION {[1..n -> NameTokens] : n \in 1..MaxNameLen} :
        \A i \in 1..(Len(name) - 1) :
            ~(name[i] \in DigitTokens /\ name[i + 1] \in DigitTokens)}

\* an object of some name is listed
InitNames ==
    /\ InitMemory
    /\ bucket = EmptyMap
    /\ disk = EmptyMap
    /\ \E name \in Names : ev = <<Event("listed", NoNumber, "", name)>>
    /\ envSteps = 0
    /\ InitClient(Part001)

\* the loop body of pollForInvoices for the listed object, up to the
\* registry test
ExamineName ==
    /\ Len(ev) = 1
    /\ ev[1].e = "listed"
    /\ ev' = <<Event("examine", extractInvoiceNumber(ev[1].key),
                     Verdict(ev[1].key), ev[1].key)>>
    /\ UNCHANGED <<pollerVars, loopVars, worldVars, sessionVars, clientVars,
                   envSteps>>

NextNames == ExamineName

SpecNames == InitNames /\ [][NextNames]_vars

(***************************************************************************)
(* SpecBackoff: the delay handleReconnection hands to setTimeout, for both *)
(* versions of the class and a range of constructor options.  Delays are   *)
(* milliseconds.                                                           *)
(***************************************************************************)
\* reconnection attempts made in a row in one behaviour
MaxBackoffAttempts == 9

\* constructor options: reconnectDelay, maxReconnectDelay (the second version
\* defaults it to 30000), maxReconnectAttempts
BackoffConfigs ==
    [file : {"WebSocketClient.js"}, version : {"first", "second"},
     autoReconnect : {TRUE}, onDisconnected : {FALSE}, onError : {TRUE},
     reconnectDelay : {100, 1000, 2000},
     maxReconnectDelay : {5000, 30000},
     maxReconnectAttempts : {5, MaxBackoffAttempts}]

RECURSIVE Pow2(_)
Pow2(n) == IF n = 0 THEN 1 ELSE 2 * Pow2(n - 1)

Min(a, b) == IF a <= b THEN a ELSE b

\* `delay` of handleReconnection once reconnectAttempts has been incremented
reconnectDelayOf(config, attempts) ==
    IF config.version = "first"
    THEN config.reconnectDelay * Pow2(attempts - 1)
    ELSE Min(config.reconnectDelay * Pow2(Min(attempts - 1, 6)),
             config.maxReconnectDelay)

\* handleReconnection: a connection attempt has failed or the socket closed
ReconnectionScheduled ==
    /\ wsClient.reconnectAttempts < httpServer.owner.maxReconnectAttempts
    /\ wsClient.reconnectAttempts < MaxBackoffAttempts
    /\ wsClient' = [wsClient EXCEPT !.isReconnecting = TRUE,
                                    !.reconnectAttempts = @ + 1]
    /\ ev' = <<Event("setTimeout", NoNumber, "handleReconnection",
                     <<reconnectDelayOf(httpServer.owner,
                                        wsClient.reconnectAttempts + 1)>>)>>
    /\ ServerUnchanged
    /\ UNCHANGED <<sockets, retrying, reconnectTimers, listenerTimers, wire,
                   httpServer, envSteps>>

\* the 'open' handler: reconnectAttempts = 0
ReconnectionSucceeds ==
    /\ wsClient.reconnectAttempts > 0
    /\ wsClient' = [wsClient EXCEPT !.isReconnecting = FALSE,
                                    !.isConnected = TRUE,
                                    !.reconnectAttempts = 0]
    /\ ev' = <<>>
    /\ ServerUnchanged
    /\ UNCHANGED <<sockets, retrying, reconnectTimers, listenerTimers, wire,
                   httpServer, envSteps>>

InitBackoff ==
    /\ InitMemory
    /\ bucket = EmptyMap
    /\ disk = EmptyMap
    /\ ev = <<>>
    /\ envSteps = 0
    /\ \E config \in BackoffConfigs : InitClient(config)

NextBackoff ==
    \/ ReconnectionScheduled
    \/ ReconnectionSucceeds

SpecBackoff == InitBackoff /\ [][NextBackoff]_vars

(***************************************************************************)
(* SpecRequest: the request_invoice handler.  The websocket-server.js of   *)
(* src/ has no such branch; the handler is written from section 4.5 of the *)
(* specification, over getProcessedInvoice, the registry Map and           *)
(* getExpectedInvoiceDataForPlayer of invoicePoller.js.  A first client is *)
(* registered, as in SpecReconnect.                                        *)
(***************************************************************************)
\* a frame without a summary field; a summary s is carried as <<s>>
NoSummary == <<>>

\* "the summary attached if available (looked up via C3 by PN ...": the
\* registry entry of the invoice number
SummaryByInvoice(invoiceNumber) ==
    IF MapHas(expectedInvoices, invoiceNumber)
    THEN {<<expectedInvoices[invoiceNumber].summary>>}
    ELSE {}

\* getExpectedInvoiceDataForPlayer(playerId): the first entry of the Map, in
\* insertion order, whose playerId is the player's; the model keeps no
\* insertion order, so any of the player's entries
getExpectedInvoiceDataForPlayer(playerId) ==
    IF playerId = "" THEN {}
    ELSE {<<expectedInvoices[m].summary>> :
            m \in {x \in DOMAIN expectedInvoices :
                     expectedInvoices[x].playerId = playerId}}

\* summary of request_invoice: by PN, "falling back to findByPlayer(PID)"
RequestedSummaries(invoiceNumber, playerId) ==
    IF SummaryByInvoice(invoiceNumber) # {} THEN SummaryByInvoice(invoiceNumber)
    ELSE IF getExpectedInvoiceDataForPlayer(playerId) # {}
         THEN getExpectedInvoiceDataForPlayer(playerId)
         ELSE {NoSummary}

InvoicePdf(ws, invoiceNumber, data, summary) ==
    Event("invoice_pdf", invoiceNumber, ws,
          <<data.base64Data, data.filename, data.fileSize, summary>>)

\* ws.on('message') with {type: 'request_invoice', invoiceNumber}
MessageRequestInvoice(ws, invoiceNumber) ==
    /\ ~Busy
    /\ ws \in openSockets
    /\ LET playerId == IF MapHas(connectionUsers, ws) THEN connectionUsers[ws]
                       ELSE ""
       IN  IF ReadOutcome(invoiceNumber) = "record"
           THEN \E summary \in RequestedSummaries(invoiceNumber, playerId) :
                  ev' = <<Received(ws, "request_invoice"),
                          InvoicePdf(ws, invoiceNumber,
                                     disk[InvoiceFileName(invoiceNumber)].data,
                                     summary)>>
           ELSE ev' = <<Received(ws, "request_invoice"),
                        Frame(ws, "invoice_response", invoiceNumber)>>
    /\ UNCHANGED <<pollerVars, loopVars, worldVars, sessionVars, clientVars,
                   envSteps>>

NextRequest ==
    \/ Initialize
    \/ Restart
    \/ \E n \in PNs, p \in Players, s \in Summaries :
         RegisterExpectedInvoice(n, p, s)
    \/ \E h \in TimerIds : TimerFire(h)
    \/ \E t \in TickIds : TickStep(t)
    \/ \E name \in StoreObjNames : PutObject(name)
    \/ \E ws \in Sessions, n \in PNs : MessageRequestInvoice(ws, n)

SpecRequest == InitReconnect /\ [][NextRequest]_vars

(***************************************************************************)
(* SpecTie: a bucket that holds two objects of one PO number.  The server  *)
(* is polling, the PO number is registered, and nothing is registered      *)
(* during the run: a second object of a listing is examined after the      *)
(* first was.  Reads of the storage directory do not reject.               *)
(***************************************************************************)
InitTie ==
    /\ expectedInvoices =
         MapSet(EmptyMap, "1030", [playerId |-> "alice", summary |-> 50])
    /\ processedInvoicesCache = {}
    /\ registeredInvoices = <<>>
    /\ processedInvoices = EmptyMap
    /\ isPolling = TRUE
    /\ isConnected = TRUE
    /\ pollingTimer = 1
    /\ invoiceProcessedCallback = TRUE
    /\ timers = {1}
    /\ ticks = [t \in TickIds |-> IdleTick]
    /\ connectedClients = {}
    /\ openSockets = {}
    /\ userConnections = EmptyMap
    /\ connectionUsers = EmptyMap
    /\ bucket = MapSet(MapSet(EmptyMap, ObjInvoice1030, ContentOf(ObjInvoice1030)),
                       ObjBare1030, ContentOf(ObjBare1030))
    /\ disk = EmptyMap
    /\ ev = <<>>
    /\ envSteps = 0
    /\ InitClient(Part001)

NextTie ==
    \/ \E h \in TimerIds : TimerFire(h)
    \/ \E t \in TickIds : ListFails(t)
    \/ \E t \in TickIds : ListReturns(t)
    \/ \E t \in TickIds : Examine(t)
    \/ \E t \in TickIds : FsReadMisses(t)
    \/ \E t \in TickIds : GetReturns(t)
    \/ \E t \in TickIds : GetFails(t)
    \/ \E t \in TickIds : WriteReturns(t)
    \/ \E t \in TickIds : WriteFails(t)
    \/ \E name \in ObjNames : PutObject(name)

SpecTie == InitTie /\ [][NextTie]_vars

(***************************************************************************)
(* Properties of the polling engine.                                       *)
(***************************************************************************)
EffectKinds == {"getObject", "writeFile", "cacheAdd", "callback", "invoice_ready"}

\* the object a tick is about to examine yields no number, or a number that
\* the registry does not hold at this moment
Unsolicited(t) ==
    /\ ticks[t].pc = "examine"
    /\ PassesFilter(CurrentFile(t).name)
    /\ \/ extractInvoiceNumber(CurrentFile(t).name) = NoNumber
       \/ ~MapHas(expectedInvoices, extractInvoiceNumber(CurrentFile(t).name))

\* C1: strict expected-only rule.  The step that examines an object whose name
\* yields no PO number, or whose PO number is not in the registry at that
\* moment, issues no getObject, writes no file, adds nothing to the cache,
\* calls no callback and sends no frame; the tick leaves the object behind
\* (it is at the next object of the listing, or has ended).
C1_ExpectedOnly ==
    [][\A t \in TickIds :
         Unsolicited(t) =>
           /\ disk' = disk
           /\ processedInvoicesCache' = processedInvoicesCache
           /\ expectedInvoices' = expectedInvoices
           /\ \A i \in 1..Len(ev') : ev'[i].e \notin EffectKinds
           /\ \/ ticks'[t].pc = "idle"
              \/ ticks'[t].pc = "examine" /\ ticks'[t].idx = ticks[t].idx + 1]_vars

\* an unregistered invoice object has just been examined while another PO
\* number is registered, and a nameless one while the registry is not empty
C1_Witness ==
    /\ Len(ev) = 1
    /\ ev[1].e = "examine"
    /\ ev[1].key = ObjInvoice1030
    /\ ev[1].who = "unexpected"
    /\ MapHas(expectedInvoices, "2001")
    /\ disk = EmptyMap

\* C2: no getObject is issued for a PO number that is in the dedup cache or
\* that has a record on disk.
C2_NoFetchOfKnown ==
    \A i \in 1..Len(ev) :
        ev[i].e = "getObject" =>
            /\ Str(ev[i].pn) \notin processedInvoicesCache
            /\ ~( /\ MapHas(disk, InvoiceFileName(ev[i].pn))
                  /\ disk[InvoiceFileName(ev[i].pn)].complete )

\* a getObject has just been issued for one PO number while the other one is
\* cached and on disk
C2_Witness ==
    /\ Happened("getObject", "2001")
    /\ Str("1030") \in processedInvoicesCache
    /\ MapHas(disk, InvoiceFileName("1030"))
    /\ disk[InvoiceFileName("1030")].complete


\* C3: polling ticks never overlap.  Under every interleaving of startPolling,
\* stopPolling, registerInvoice, timer firings and tick completions, at most
\* one execution of pollForInvoices is in progress and at most one poll timer
\* is pending.
C3_TicksNeverOverlap ==
    /\ Cardinality(ActiveTicks) <= 1
    /\ Cardinality(timers) <= 1


\* a complete record for PO number n is in the storage directory
HasRecord(n) ==
    /\ MapHas(disk, InvoiceFileName(n))
    /\ disk[InvoiceFileName(n)].complete

SessionOpen(p) ==
    /\ MapHas(userConnections, p)
    /\ userConnections[p] \in openSockets

ReadyFrames(n) == {i \in 1..Len(ev) : ev[i].e = "invoice_ready" /\ ev[i].pn = n}

\* C4: happy path.  When the get and the write for a registered PO number N
\* have succeeded, the step that completes the write leaves a record for N on
\* disk (made for the registered player P), N is no longer in the registry,
\* and if P has an open registered session exactly one invoice_ready frame
\* for N was sent, to P's socket.
C4_HappyPath ==
    \A i \in 1..Len(ev) :
        ev[i].e = "writeFile" =>
            /\ HasRecord(ev[i].pn)
            /\ disk[InvoiceFileName(ev[i].pn)].data.playerId = ev[i].who
            /\ ~MapHas(expectedInvoices, ev[i].pn)
            /\ SessionOpen(ev[i].who) =>
                 /\ Cardinality(ReadyFrames(ev[i].pn)) = 1
                 /\ \A j \in ReadyFrames(ev[i].pn) :
                        ev[j].who = userConnections[ev[i].who]

\* the write for 1030 has just completed and alice, who registered it, was
\* sent the frame on her open socket
C4_Witness ==
    /\ Happened("writeFile", "1030")
    /\ SessionOpen("alice")
    /\ \E j \in ReadyFrames("1030") : ev[j].who = userConnections["alice"]
    /\ \E i \in 1..Len(ev) : ev[i].e = "consume" /\ ev[i].who = "alice"


\* a complete record for n written by either class
RecordOnDisk(n) ==
    \E f \in {InvoiceFileName(n), PlainFileName(n)} :
        MapHas(disk, f) /\ disk[f].complete

\* n is registered with either class
Registered(n) == MapHas(expectedInvoices, n) \/ RegIndex(n) > 0

\* C5: per-PN ordering.  The delivery callback for N is never invoked before
\* a record for N is on disk: whenever a step has called the callback for N,
\* a complete record for N is in the storage directory.
C5_PersistedBeforeDelivery ==
    \A i \in 1..Len(ev) :
        ev[i].e = "callback" => RecordOnDisk(ev[i].pn)

\* C6: when the get or the write fails while N is processed, the callback is
\* not invoked for N in that step, N is not added to the dedup cache, and the
\* registration of N stays in place for a later tick.
C6_FailureLeavesRegistration ==
    \A i \in 1..Len(ev) :
        ev[i].e \in {"getFailed", "writeFailed"} =>
            /\ ~Happened("callback", ev[i].pn)
            /\ ~Happened("cacheAdd", ev[i].pn)
            /\ Registered(ev[i].pn)

\* C7: delivery failure does not block consumption.  When the record for N
\* was written and the callback sent no frame, N is removed from the registry
\* and cached and its record is on disk; a record on disk stays there; and
\* every invoice_ready frame for N consumes a registration of N, so no later
\* tick sends one for a registration already consumed.
C7_ConsumedDespiteDeliveryFailure ==
    [][\A n \in PNs :
         /\ (Happened("writeFile", n)' /\ ReadyFrames(n)' = {}) =>
               /\ HasRecord(n)'
               /\ ~MapHas(expectedInvoices', n)
               /\ Str(n) \in processedInvoicesCache'
         /\ HasRecord(n) => HasRecord(n)'
         /\ ReadyFrames(n)' # {} =>
               /\ MapHas(expectedInvoices, n)
               /\ ~MapHas(expectedInvoices', n)]_vars

\* the record for 2001 has just been written for bob, who has no session: the
\* callback ran and sent nothing, and the registration is gone
C7_Witness ==
    /\ Happened("writeFile", "2001")
    /\ Happened("callback", "2001")
    /\ ReadyFrames("2001") = {}
    /\ \E i \in 1..Len(ev) : ev[i].e = "consume" /\ ev[i].who = "bob"
    /\ ~SessionOpen("bob")
    /\ ~MapHas(expectedInvoices, "2001")
    /\ HasRecord("2001")

\* C8: a tick whose listing fails changes neither the registry, the dedup
\* cache nor the records on disk and sends no frame, and while polling is
\* active its end arms a new timer.
C8_ListFailureChangesNothing ==
    [][Happened("listFailed", NoNumber)' =>
         /\ expectedInvoices' = expectedInvoices
         /\ processedInvoicesCache' = processedInvoicesCache
         /\ disk' = disk
         /\ \A i \in 1..Len(ev') : ev'[i].e \notin EffectKinds
         /\ isPolling' = isPolling
         /\ isPolling =>
              /\ pollingTimer' \in timers'
              /\ pollingTimer' \notin timers]_vars

\* a listing has just failed while an invoice was registered and its object
\* was in the bucket; a timer is armed again
C8_Witness ==
    /\ Happened("listFailed", NoNumber)
    /\ MapHas(expectedInvoices, "1030")
    /\ MapHas(bucket, ObjInvoice1030)
    /\ isPolling
    /\ pollingTimer \in timers

\* C9: registration is a last-write-wins upsert, and the tick that finds the
\* artifact delivers to the player the registry holds for N: the callback of
\* a step is invoked for the player whose registration the step consumes.
C9_DeliversToRegisteredPlayer ==
    \A i, j \in 1..Len(ev) :
        (ev[i].e = "callback" /\ ev[j].e = "consume" /\ ev[i].pn = ev[j].pn)
            => ev[i].who = ev[j].who

\* C10: cached re-delivery.  A step that consumes the registration of N for
\* player P without fetching (a record for N was already on disk) sends
\* invoice_ready for N to P's socket when P has an open session.
C10_RenotifiesRegistrant ==
    \A j \in 1..Len(ev) :
        (ev[j].e = "consume" /\ ~Happened("writeFile", ev[j].pn)
                             /\ SessionOpen(ev[j].who))
            => \E i \in ReadyFrames(ev[j].pn) :
                   ev[i].who = userConnections[ev[j].who]


(***************************************************************************)
(* Properties of the invoice store.                                        *)
(***************************************************************************)
\* C11: store consistency.  After startup, for every PO number N, N is in the
\* dedup cache if and only if reading N's record from disk returns a record.
C11_HasIffGet ==
    isConnected =>
        \A n \in PNs :
            Str(n) \in processedInvoicesCache <=> ReadOutcome(n) = "record"

\* C12: the dedup cache never leads the disk.  In every reachable state, every
\* PO number in the dedup cache has its record file invoice_<N>.json in the
\* storage directory.
C12_CacheNeverLeadsDisk ==
    \A n \in PNs :
        Str(n) \in processedInvoicesCache => MapHas(disk, InvoiceFileName(n))

\* C13: startup seeding.  When initialize completes, every PO number N whose
\* record invoice_<N>.json was written in a previous run is in the dedup cache
\* (has(N) is true), and listInvoicesInFilesystem returns exactly the PO
\* numbers that have records on disk.  (Stated for directories whose files
\* were all written completely.)
C13_StartupSeeding ==
    [][(/\ ~isConnected /\ isConnected'
        /\ \A f \in DOMAIN disk' : disk'[f].complete) =>
          /\ \A n \in PNs : HasRecord(n)' => Str(n) \in processedInvoicesCache'
          /\ listInvoicesInFilesystem' = {Str(n) : n \in {r \in PNs : HasRecord(r)'}}
      ]_vars

\* C14: delete removes both the record file and the cache entry.  After
\* deleteInvoiceFromFilesystem(N) has returned for a PO number N, reading N's
\* record finds nothing and N is not in the dedup cache; and a
\* clearProcessedInvoices(playerId) that has ended has left no record whose
\* playerId is the argument.
C14_DeleteRemoves ==
    \A i \in 1..Len(ev) :
        /\ (ev[i].e = "delete" /\ ev[i].who # "cleared") =>
              \A n \in PNs :
                  ev[i].key = Str(n) =>
                      /\ ReadOutcome(n) = "null"
                      /\ Str(n) \notin processedInvoicesCache
        /\ (ev[i].e = "cleared" /\ ev[i].who # "") =>
              \A n \in PNs :
                  HasRecord(n) => disk[InvoiceFileName(n)].data.playerId # ev[i].who

\* C15 (as stated): store round trip.  A record r written by
\* saveInvoiceToFilesystem(N, r) and read back by fetchInvoiceFromFilesystem(N)
\* is equal to r in base64Data, playerId, filename, fileSize, processedAt and
\* s3Metadata.
C15_RoundTripEqual ==
    (Len(ev) = 2 /\ ev[2].e = "get") =>
        \A f \in {"base64Data", "playerId", "filename", "fileSize",
                  "processedAt", "s3Metadata"} :
            ev[2].who[f] = ev[1].who[f]

\* C15 (amended): the record read back is equal to r in base64Data, playerId,
\* filename, fileSize, processedAt, s3Key and s3Size; its s3LastModified is
\* the ISO-8601 string of the same instant, whatever type r carried; and its
\* only other fields are savedAt and filePath.
C15_RoundTripUpToJson ==
    (Len(ev) = 2 /\ ev[2].e = "get") =>
        LET r == ev[1].who
            got == ev[2].who
        IN  /\ \A f \in {"base64Data", "playerId", "filename", "fileSize",
                         "processedAt"} : got[f] = r[f]
            /\ got.s3Metadata.s3Key = r.s3Metadata.s3Key
            /\ got.s3Metadata.s3Size = r.s3Metadata.s3Size
            /\ got.s3Metadata.s3LastModified =
                 IsoString(r.s3Metadata.s3LastModified.instant)
            /\ DOMAIN got = DOMAIN r \cup {"savedAt", "filePath"}
            /\ got.filePath = InvoiceFileName(ev[2].pn)

\* a record carrying a Date was put and read back
C15_Witness ==
    /\ Len(ev) = 2
    /\ ev[2].e = "get"
    /\ ev[1].who.s3Metadata.s3LastModified.kind = "Date"
    /\ ev[2].who.s3Metadata.s3LastModified.kind = "string"

\* Buffer.from(s, 'base64'): the bytes a base64 text decodes to
RECURSIVE Base64Decode(_)
Base64Decode(s) ==
    IF Len(s) < 4 THEN <<>>
    ELSE LET b1 == s[1] * 4 + s[2] \div 16
             b2 == (s[2] % 16) * 16 + s[3] \div 4
             b3 == (s[3] % 4) * 64 + s[4]
         IN  IF s[3] = 64 THEN <<b1>>
             ELSE IF s[4] = 64 THEN <<b1, b2>>
             ELSE <<b1, b2, b3>> \o Base64Decode(SubSeq(s, 5, Len(s)))

\* C16: for every record on disk, fileSize equals the length of the bytes that
\* base64Data decodes to (the bytes actually fetched), also when the object
\* was overwritten between the bucket listing and the get of the tick.
C16_FileSizeIsDecodedLength ==
    \A n \in PNs :
        HasRecord(n) =>
            disk[InvoiceFileName(n)].data.fileSize =
                Len(Base64Decode(disk[InvoiceFileName(n)].data.base64Data))

\* C17: record writes are atomic for readers.  A read of N's record that runs
\* while a tick is writing that record finds either no record or the complete
\* record: fetchInvoiceFromFilesystem never fails on partial content.
C17_ReadersSeeWholeRecords ==
    \A i \in 1..Len(ev) :
        (/\ ev[i].e = "read"
         /\ \E t \in TickIds : ticks[t].pc = "write" /\ Str(ticks[t].pn) = ev[i].key)
            => ev[i].who \in {"null", "record"}

(***************************************************************************)
(* Properties of the session maps.                                         *)
(***************************************************************************)
\* C18: the forward map (player id -> session) and the reverse map
\* (session -> player id) never diverge: in every reachable state
\* userConnections[p] = s if and only if connectionUsers[s] = p.
C18_MapsNeverDiverge ==
    \A p \in Players, s \in Sessions :
        (MapHas(userConnections, p) /\ userConnections[p] = s)
            <=> (MapHas(connectionUsers, s) /\ connectionUsers[s] = p)

\* the step is the 'register' message of player id p on session b
RegistersOn(p, b) ==
    \E i \in 1..Len(ev') :
        /\ ev'[i].e = "register_response"
        /\ ev'[i].who = b
        /\ ev'[i].key = <<p>>

\* the step is the close or error event of session a (the process goes on)
Closes(a) ==
    /\ a \in connectedClients
    /\ a \notin connectedClients'
    /\ isConnected' = isConnected

\* C19: re-registration replaces without eviction.  When session b registers a
\* player id p held by another session a, the forward map points p to b, a
\* loses its reverse entry and is neither closed nor removed from the
\* connected clients; and when a session a closes or errors while p is mapped
\* to another session b, p stays mapped to b.
C19_ReplacesWithoutEviction ==
    [][\A p \in Players, a \in Sessions : \A b \in Sessions \ {a} :
          /\ (MapHas(userConnections, p) /\ userConnections[p] = a
              /\ RegistersOn(p, b)) =>
                 /\ MapHas(userConnections', p) /\ userConnections'[p] = b
                 /\ ~MapHas(connectionUsers', a)
                 /\ (a \in openSockets) = (a \in openSockets')
                 /\ (a \in connectedClients) = (a \in connectedClients')
          /\ (MapHas(userConnections, p) /\ userConnections[p] = b
              /\ Closes(a)) =>
                 MapHas(userConnections', p) /\ userConnections'[p] = b
      ]_vars

\* session s2 has just taken over alice from s1, which is still open
C19_Witness ==
    /\ \E i \in 1..Len(ev) :
         ev[i].e = "reconnected" /\ ev[i].who = "s1" /\ ev[i].key = <<"alice">>
    /\ MapHas(userConnections, "alice") /\ userConnections["alice"] = "s2"
    /\ "s1" \in openSockets
    /\ "s1" \in connectedClients

\* C20: the delivery callback resolves the player's session at the moment it
\* is invoked.  In a step that invokes the callback for PO number N and player
\* P, an invoice_ready frame for N is written to session s exactly when s is
\* the session the forward map holds for P at that moment and s is open: to
\* the new session after a re-registration, never to the old one, and to no
\* session when P has none.  The registration is consumed by the same step, so
\* no later invoice_ready is sent for it.
C20_SessionResolvedAtInvocation ==
    \A i \in 1..Len(ev) :
        ev[i].e = "callback" =>
            /\ \A s \in Sessions :
                 (\E j \in ReadyFrames(ev[i].pn) : ev[j].who = s)
                     <=> (/\ MapHas(userConnections, ev[i].who)
                          /\ userConnections[ev[i].who] = s
                          /\ s \in openSockets)
            /\ Cardinality(ReadyFrames(ev[i].pn)) <= 1
            /\ ~MapHas(expectedInvoices, ev[i].pn)

\* alice's invoice is delivered to s2, which took alice over from s1 while s1
\* stays open
C20_Witness ==
    /\ \E i \in 1..Len(ev) : ev[i].e = "callback" /\ ev[i].who = "alice"
    /\ \E i \in 1..Len(ev) : ev[i].e = "invoice_ready" /\ ev[i].who = "s2"
    /\ "s1" \in openSockets
    /\ ~MapHas(connectionUsers, "s1")

\* C21: the delivery callback returns true if and only if it sent exactly one
\* invoice_ready frame for the PO number, to the open session mapped to the
\* record's player; when the player has no session or the session is not
\* open it sends no frame and returns false, and the registration is gone, so
\* the delivery is not retried.
C21_ReturnsTrueIffSent ==
    \A i \in 1..Len(ev) :
        ev[i].e = "callback" =>
            LET sent == {j \in ReadyFrames(ev[i].pn) :
                             /\ SessionOpen(ev[i].who)
                             /\ ev[j].who = userConnections[ev[i].who]}
            IN  /\ ev[i].key = <<"true">> <=> Cardinality(sent) = 1
                /\ ev[i].key = <<"false">> <=> ReadyFrames(ev[i].pn) = {}
                /\ ev[i].key \in {<<"true">>, <<"false">>}
                /\ ~SessionOpen(ev[i].who) => ev[i].key = <<"false">>
                /\ ev[i].key = <<"false">> => ~MapHas(expectedInvoices, ev[i].pn)

\* the callback returned false for a player whose mapped socket is no longer
\* open
C21_Witness ==
    \E i \in 1..Len(ev) :
        /\ ev[i].e = "callback"
        /\ ev[i].key = <<"false">>
        /\ MapHas(userConnections, ev[i].who)
        /\ userConnections[ev[i].who] \notin openSockets

\* C22: on every new connection the server sends a welcome frame followed by
\* the current game status, before anything else on that session: the step
\* that accepts a connection writes, to the new socket, a welcome frame and
\* then a game_status frame, and nothing before them.
C22_WelcomeThenStatus ==
    [][\A ws \in Sessions :
          (ws \notin connectedClients /\ ws \in connectedClients') =>
              /\ Len(ev') >= 2
              /\ ev'[1] = Frame(ws, "welcome", NoNumber)
              /\ ev'[2].e = "game_status" /\ ev'[2].who = ws
      ]_vars

\* C23: before a session has registered, every inbound frame other than
\* register is ignored: the handler run writes no frame, calls no external
\* sink and changes no server state.
C23_IgnoredBeforeRegister ==
    [][\A i \in 1..Len(ev') :
          (/\ ev'[i].e = "message"
           /\ ~MapHas(connectionUsers, ev'[i].who)
           /\ \A p \in Players :
                ~(MapHas(userConnections, p) /\ userConnections[p] = ev'[i].who)) =>
              /\ Len(ev') = 1
              /\ UNCHANGED <<pollerVars, loopVars, worldVars, sessionVars>>
      ]_vars

\* C24: shutdown.  When the process exits on a terminate or interrupt signal,
\* no tick is in progress: a tick that had started has run to completion (its
\* write, delivery and consume steps are done) before the exit.
C24_TickCompletesBeforeExit ==
    [][(isConnected /\ ~isConnected') =>
          \A t \in TickIds : ticks[t].pc = "idle"
      ]_vars

\* the frames of messages on WebSocket k, in the order of messages
FramesOn(k, messages) ==
    [i \in 1..Len(messages) |-> [socket |-> k, message |-> messages[i]]]

Opens(k) ==
    /\ sockets[k].readyState = "CONNECTING"
    /\ sockets'[k].readyState = "OPEN"

IsPrefix(s, t) == Len(s) <= Len(t) /\ SubSeq(t, 1, Len(s)) = s

\* C25: inter-service client queueing.  A message passed to send while the
\* client is not connected is put at the end of the queue and not transmitted;
\* a connection attempt that fails, a timeout and a timer leave the queue as
\* it is; the step in which a WebSocket opens transmits, on that WebSocket, its register
\* frame and then every queued message once, in queue order, and leaves the
\* queue empty.
C25_QueuedThenFlushedOnOpen ==
    [][/\ \A k \in SocketIds : Opens(k) =>
             /\ wire' = wire \o <<[socket |-> k, message |-> RegistrationMessage]>>
                             \o FramesOn(k, wsClient.messageQueue)
             /\ wsClient'.messageQueue = <<>>
       /\ (\A k \in SocketIds : ~Opens(k)) =>
             /\ IsPrefix(wsClient.messageQueue, wsClient'.messageQueue)
             /\ (~wsClient.isConnected /\ wsClient'.messageQueue # wsClient.messageQueue)
                    => wire' = wire
      ]_vars

\* C26: request_invoice is idempotent after delivery.  Every invoice_pdf
\* frame sent for a PO number N carries the base64Data and the metadata of
\* N's record on disk and the order summary registered for N, never a summary
\* registered for another PO number: the frame does not depend on the
\* registrations and ticks of other PO numbers.
C26_RequestInvoiceIdempotent ==
    [][\A i \in 1..Len(ev') :
          ev'[i].e = "invoice_pdf" =>
             /\ ReadOutcome(ev'[i].pn) = "record"
             /\ LET data == disk[InvoiceFileName(ev'[i].pn)].data
                IN  \E summary \in SummaryByInvoice(ev'[i].pn) \cup {NoSummary} :
                       ev'[i] = InvoicePdf(ev'[i].who, ev'[i].pn, data, summary)
             /\ (SummaryByInvoice(ev'[i].pn) = {} => ev'[i].key[4] = NoSummary)
      ]_vars

\* C27: consume is an atomic read-and-delete with respect to registration.
\* The registry entry a tick removes at the end of processing PO number N is
\* the entry the tick looked up at the start: a re-registration of N for
\* another player that arrived while the tick awaited is never deleted
\* without having been delivered to its own player.
C27_ConsumeRemovesWhatItLookedUp ==
    [][\A i \in 1..Len(ev') :
          (ev'[i].e = "consume" /\ MapHas(expectedInvoices, ev'[i].pn)) =>
              expectedInvoices[ev'[i].pn].playerId = ev'[i].who
      ]_vars

\* C28: a registration is consumed only after the delivery callback has been
\* invoked for it.  Each removal of a PO number from the registry by a tick
\* is preceded, in that tick, by an invocation of the delivery callback for
\* that PO number.
C28_CallbackBeforeConsume ==
    [][\A i \in 1..Len(ev') :
          ev'[i].e = "consume" =>
              \E j \in 1..(i - 1) :
                  ev'[j].e = "callback" /\ ev'[j].pn = ev'[i].pn
      ]_vars

\* tick t fetches, writes or calls back for the PO number of its current object
TickEffect(t) ==
    /\ ticks[t].pc \in {"cacheRead", "fsRead", "get", "write"}
    /\ ticks'[t] # ticks[t]
    /\ \E i \in 1..Len(ev') :
         /\ ev'[i].e \in {"getObject", "writeFile", "callback"}
         /\ ev'[i].pn = ticks[t].pn

\* C29: tie-break within a listing.  If two objects of one listing yield the
\* same PO number, only the first encountered is fetched, persisted and
\* delivered: a tick causes no object-store get, no file write and no
\* callback for an object when an earlier object of its listing yields the
\* same PO number, even when the first attempt failed.
C29_SecondObjectSkipped ==
    [][\A t \in TickIds :
          TickEffect(t) =>
             \A j \in 1..(ticks[t].idx - 1) :
                ~(/\ PassesFilter(ticks[t].objects[j].name)
                  /\ extractInvoiceNumber(ticks[t].objects[j].name) = ticks[t].pn)
      ]_vars

\* C30: processed records are immutable.  Once a record for PO number N
\* exists on disk, no step of the polling engine writes N's record file
\* again: the file and its content (base64Data, playerId) stay as they are
\* under any sequence of re-registrations, ticks and restarts.
C30_RecordsImmutable ==
    [][\A n \in PNs : \A f \in {InvoiceFileName(n), PlainFileName(n)} :
          (MapHas(disk, f) /\ disk[f].complete) =>
              /\ MapHas(disk', f)
              /\ disk'[f] = disk[f]
              /\ \A i \in 1..Len(ev') :
                    ~(ev'[i].e = "writeFile" /\ ev'[i].pn = n)
      ]_vars

\* the command an admin-panel frame of this step carried, if any
CommandRuns(step) == {i \in 1..Len(step) : step[i].e = "handleCommand"}

\* the frames a step wrote to sockets
FrameKinds ==
    {"welcome", "invoice_ready", "invoice_register_response", "direct_message",
     "send_response", "command", "broadcast_message", "invoice_pdf",
     "invoice_response"}

\* C31: an inbound frame with source admin-panel affects only the game
\* status: whatever the command, the server does not terminate, does not
\* close its listener, and writes no frame other than the command fan-out of
\* a recognised game command.
C31_AdminCommandOnlyGameStatus ==
    [][\A i \in CommandRuns(ev') :
          /\ \A j \in 1..Len(ev') : ev'[j].e \notin {"server.close", "process.exit"}
          /\ \A j \in 1..Len(ev') :
                ev'[j].e \in FrameKinds =>
                   /\ ev'[j].e = "command"
                   /\ ev'[i].key \in {<<"start">>, <<"pause">>, <<"new">>, <<"endgame">>}
      ]_vars

\* C32: when a command or message broadcast is fanned out, every session
\* that is open at that moment is sent the frame.
C32_BroadcastReachesEveryOpenSession ==
    [][\A i \in CommandRuns(ev') :
          (\/ ev'[i].key \in {<<"start">>, <<"pause">>, <<"new">>, <<"endgame">>}
           \/ (ev'[i].key[1] = "broadcast" /\ Len(ev'[i].key) >= 2)) =>
             \A ws \in connectedClients \cap openSockets :
                \E j \in 1..Len(ev') :
                   /\ ev'[j].e \in {"command", "broadcast_message"}
                   /\ ev'[j].who = ws
      ]_vars

\* what a tick does that is visible outside it
TickEffects ==
    {"getObject", "getFailed", "writeFile", "writeFailed", "cacheAdd", "callback",
     "consume", "invoice_ready"}

\* C33: polling is gated, not stopped, by an empty registry.  A tick step
\* taken while the registry is empty changes neither the registry, the cache,
\* the storage directory nor the sessions and writes no frame; while polling
\* is on there is always a pending timer or a running tick; and a tick that
\* comes to an object whose PO number is registered takes it up.
C33_GatedNotStopped ==
    [][/\ \A t \in TickIds :
            (expectedInvoices = EmptyMap /\ ticks[t].pc # "idle" /\ ticks'[t] # ticks[t]
             /\ isPolling') =>
               /\ UNCHANGED <<expectedInvoices, processedInvoicesCache, worldVars,
                              sessionVars, isPolling>>
               /\ \A i \in 1..Len(ev') : ev'[i].e \notin TickEffects
       /\ isPolling' => (pollingTimer' \in timers' \/ \E t \in TickIds : ticks'[t].pc # "idle")
       /\ \A t \in TickIds :
            (/\ ticks[t].pc = "examine" /\ ticks'[t] # ticks[t] /\ isPolling'
             /\ PassesFilter(CurrentFile(t).name)
             /\ extractInvoiceNumber(CurrentFile(t).name) # NoNumber
             /\ MapHas(expectedInvoices, extractInvoiceNumber(CurrentFile(t).name))) =>
               /\ ticks'[t].pc \in {"cacheRead", "fsRead"}
               /\ ticks'[t].pn = extractInvoiceNumber(CurrentFile(t).name)
      ]_vars

\* an idle tick has just ended on an object nobody registered, the loop is
\* armed again, and nothing was stored
C33_Witness ==
    /\ expectedInvoices = EmptyMap
    /\ isPolling
    /\ pollingTimer \in timers
    /\ \A t \in TickIds : ticks[t].pc = "idle"
    /\ Len(ev) = 1 /\ ev[1].e = "examine" /\ ev[1].who = "unexpected"
    /\ DOMAIN disk = {}

\* C34: with maxRetries unlimited a registration is never expired: an entry
\* leaves the registry only in a step of a tick that found its object and
\* processed it, whatever the number of ticks that did not find it and
\* whatever its age.
C34_RegistrationsNeverExpire ==
    [][\A i \in 1..Len(registeredInvoices) :
          (\A k \in 1..Len(registeredInvoices') :
              registeredInvoices'[k].pn # registeredInvoices[i].pn) =>
             \E j \in 1..Len(ev') :
                /\ ev'[j].e = "consume"
                /\ ev'[j].pn = registeredInvoices[i].pn
      ]_vars

\* the delay the timer of this step was armed with
ScheduledDelay(step) == step[1].key[1]

\* C35: the reconnect back-off is capped and monotone: the delay scheduled
\* for attempt k is min(reconnectDelay * 2^(k-1), maxReconnectDelay), it never
\* exceeds maxReconnectDelay, and it does not decrease from one attempt to
\* the next until an open resets the counter.
C35_BackoffCappedMonotone ==
    [][(Len(ev') = 1 /\ ev'[1].e = "setTimeout") =>
          LET k == wsClient'.reconnectAttempts
              config == httpServer.owner
          IN  /\ ScheduledDelay(ev') =
                   Min(config.reconnectDelay * Pow2(k - 1), config.maxReconnectDelay)
              /\ ScheduledDelay(ev') <= config.maxReconnectDelay
              /\ (Len(ev) = 1 /\ ev[1].e = "setTimeout") =>
                     ScheduledDelay(ev) <= ScheduledDelay(ev')
      ]_vars

\* the digit group each of the four patterns captures in a name, in the
\* order the patterns are tried; NoNumber where the pattern does not match
Captures(name) ==
    LET I == 1..Len(name)
        at1 == {i \in I : /\ i + 2 <= Len(name)
                           /\ Lower(name[i]) = "invoice"
                           /\ name[i + 1] \in {"_", "-"}
                           /\ name[i + 2] \in DigitTokens}
        at3 == {i \in I : /\ i + 1 <= Len(name)
                           /\ Lower(name[i]) = "invoice"
                           /\ name[i + 1] \in DigitTokens}
        at4 == {i \in I : /\ i + 2 <= Len(name)
                           /\ name[i] \in DigitTokens
                           /\ name[i + 1] \in {"_", "-"}
                           /\ Lower(name[i + 2]) = "invoice"}
        least(S) == CHOOSE i \in S : \A j \in S : i <= j
    IN  << IF at1 # {} THEN name[least(at1) + 2] ELSE NoNumber,
           IF Len(name) >= 2 /\ Lower(name[Len(name)]) = ".pdf"
                 /\ name[Len(name) - 1] \in DigitTokens
           THEN name[Len(name) - 1] ELSE NoNumber,
           IF at3 # {} THEN name[least(at3) + 1] ELSE NoNumber,
           IF at4 # {} THEN name[least(at4)] ELSE NoNumber >>

FirstCapture(c) ==
    IF \A i \in 1..Len(c) : c[i] = NoNumber THEN NoNumber
    ELSE c[CHOOSE i \in 1..Len(c) :
             c[i] # NoNumber /\ \A j \in 1..(i - 1) : c[j] = NoNumber]

\* C37: an object is considered only if its name ends in .pdf or contains
\* "invoice" (case-insensitive); the candidate PO number is the digit group
\* captured by the first pattern that matches, in the order invoice[_-]digits,
\* digits.pdf at the end, invoice followed by digits, digits[_-]invoice; an
\* object no pattern matches is skipped.
C37_FilterAndExtraction ==
    \A i \in 1..Len(ev) :
        ev[i].e = "examine" /\ ev[i].who \in {"filtered", "noNumber", "unexpected",
                                               "cached", "lookup"} =>
            LET name == ev[i].key
                considered == \/ Lower(name[Len(name)]) = ".pdf"
                              \/ \E k \in 1..Len(name) : Lower(name[k]) = "invoice"
            IN  /\ (ev[i].who = "filtered") <=> ~considered
                /\ ev[i].pn = FirstCapture(Captures(name))
                /\ (ev[i].who = "noNumber") <=>
                       (considered /\ FirstCapture(Captures(name)) = NoNumber)

\* a name that the second and the third pattern both match, with different
\* digit groups: the second pattern's group is the candidate
C37_Witness ==
    /\ Len(ev) = 1
    /\ ev[1].e = "examine"
    /\ ev[1].key = <<"invoice", "1030", "_", "2001", ".pdf">>
    /\ ev[1].pn = "2001"

\* the connect() loops in progress: one awaits each pending attempt, and
\* `retrying` of them are in their delay between two attempts
ConnectLoops ==
    Cardinality({k \in SocketIds : sockets[k].promise = "pending"}) + retrying

LiveSockets == {k \in SocketIds : sockets[k].readyState \in {"CONNECTING", "OPEN"}}

\* C38: at every instant at most one connect loop is running and at most one
\* WebSocket of the client is open or connecting.
C38_OneConnectionAtATime ==
    /\ ConnectLoops <= 1
    /\ Cardinality(LiveSockets) <= 1

\* the step is a run of the heartbeat interval's callback
HeartbeatRuns ==
    /\ Len(ev') = 1
    /\ ev'[1].e \in {"ping", "terminate", "heartbeat"}

\* the step is the 'close' of a socket the heartbeat terminated
TerminatedCloses(k) ==
    /\ sockets[k].readyState = "CLOSING"
    /\ sockets[k].handshake
    /\ sockets'[k].readyState = "CLOSED"

\* a connection attempt is scheduled or in progress
ReconnectPending ==
    \/ listenerTimers' > 0
    \/ reconnectTimers' # {}
    \/ retrying' > 0
    \/ \E k \in SocketIds : sockets'[k].readyState = "CONNECTING"

\* the client holds itself connected and a connection of its is up
Connected ==
    /\ wsClient.isConnected
    /\ \E k \in SocketIds : sockets[k].readyState = "OPEN"

HeartbeatArmedWhileConnected == Connected => wsClient.heartbeatTimer

PingEveryInterval ==
    HeartbeatRuns /\ Connected => ev'[1].e \in {"ping", "terminate"}

TerminatesAfterSilence ==
    HeartbeatRuns /\ Connected /\ wsClient.sincePong >= MaxSilence
        => ev'[1].e = "terminate"

TerminationReconnects ==
    \A k \in SocketIds : TerminatedCloses(k) => ReconnectPending

NoTerminationWithPongs ==
    HeartbeatRuns /\ ev'[1].e = "terminate" => wsClient.sincePong >= MaxSilence

InQueue(message) ==
    \E i \in 1..Len(wsClient.messageQueue) : wsClient.messageQueue[i] = message

Transmitted(message) == \E i \in 1..Len(wire) : wire[i].message = message

\* C39: with autoReconnect enabled and the server reachable from some point
\* on, every message that send has queued is eventually transmitted.
C39_QueuedEventuallySent ==
    \A message \in Messages : InQueue(message) ~> Transmitted(message)

\* disconnect() has returned and the client is as it left it: this.ws is
\* null (only disconnect() sets it to null, and every connection attempt
\* stores a new WebSocket in it), the flag is false, the queue is empty and
\* no handler has thrown
StaysDisconnected ==
    /\ wsClient.ws = 0
    /\ \E k \in SocketIds : sockets[k].readyState # "none"
    /\ ~wsClient.isConnected
    /\ wsClient.messageQueue = <<>>
    /\ httpServer.running

\* C40: after disconnect() has returned the client starts no connection
\* attempt, opens no socket, sends nothing (its queue stays empty), its
\* isConnected flag stays false and the events of the old socket are handled
\* without error: no step ends the state disconnect() has left.
C40_DisconnectIsFinal == [][StaysDisconnected => StaysDisconnected']_vars

====
